---- MODULE Spec2Model ----
(***************************************************************************)
(* A model of the NLU pipeline of src/app.py: the EmbeddingService         *)
(* (intent phrase catalog, embedding index, product vector index, the      *)
(* detect_intent cascade and its context window) and the ChatbotService    *)
(* (text preprocessing, conflict check, process_message, semantic search). *)
(*                                                                         *)
(* Texts are sequences of characters.  A Latin character is written as     *)
(* itself ("a", "3", " "); an Arabic character is written by its name      *)
(* ("AIN" for U+0639, "AR1" for the Arabic-Indic digit one U+0661).        *)
(*                                                                         *)
(* Scores (cosine similarities, confidences) are fixed-point numbers in    *)
(* units of 1/Scale.  The similarity levels the model draws are multiples  *)
(* of 0.02, so that the products with 1.05 and with 1 + 0.1 * count are    *)
(* exact.                                                                  *)
(***************************************************************************)
EXTENDS Integers, Sequences, FiniteSets, TLC

VARIABLES
    intent_phrases,     \* EmbeddingService.intent_phrases: the catalog
    phrase_embeddings,  \* EmbeddingService.phrase_embeddings: ordered dict
    context_window,     \* EmbeddingService.context_window: deque(maxlen=5)
    history,            \* ghost: every entry ever appended to context_window
    lastResult,         \* ghost: what the last detect_intent call returned
    norm_input,         \* the (message, lang) handed to _preprocess_text
    norm_once,          \* _preprocess_text(message, lang)
    norm_twice,         \* _preprocess_text of that result, same lang
    norm_pc,            \* how many times _preprocess_text has been applied
    context,            \* ChatbotService.context: dict
    context_writer,     \* ghost: the session whose request wrote context last
    request,            \* per session: the process_message call in progress
    served,             \* ghost, per session: the last request and its response
    product_index,      \* EmbeddingService.product_index: the vector index
    product_lookup,     \* EmbeddingService.product_lookup: row -> product
    service_lookup,     \* ChatbotService.product_lookup: the dict bound at construction
    rebuild,            \* ghost: the rebuilds of the product index so far
    refresh,            \* refresh_intent_index in progress, and ghosts of the last one
    searched,           \* ghost: the last _safe_faiss_search call and its outcome
    extracted,          \* ghost: the _extract_entities call, when it was the last call
    processed,          \* ghost: the process_message call, when it was the last call
    weighed,            \* ghost: the normalize_weight call, when it was the last call
    sifted,             \* ghost: the filter predicates on one product, when last called
    classified,         \* ghost: the _classify_intent call, when it was the last call
    priced              \* ghost: the _extract_price_range call, when it was the last call

clsVars == <<intent_phrases, phrase_embeddings, context_window, history, lastResult>>
normVars == <<norm_input, norm_once, norm_twice, norm_pc>>
svcVars == <<context, context_writer, request, served>>
idxVars == <<product_index, product_lookup, service_lookup, rebuild, refresh, searched>>
fnVars == <<extracted, processed, weighed, sifted, classified, priced>>
vars == <<clsVars, normVars, svcVars, idxVars, fnVars>>

----------------------------------------------------------------------------
(* Bounds of the model *)

MaxCalls == 3           \* classifications per behaviour of Spec
MaxWindowCalls == 6     \* classifications per behaviour of SpecWindow
MaxNormWords == 2       \* words per text handed to the normalizer in SpecNorm
MaxIndexCalls == 1      \* classifications per behaviour of SpecIndex
MaxRefreshes == 2       \* refreshes of the intent index per behaviour of SpecIndex

----------------------------------------------------------------------------
(* Numbers of the program *)

Scale == 100 * 100                  \* 1.0 in fixed point
ContextWindowMaxLen == 5            \* deque(maxlen=5)
ConfidenceThreshold == 2500         \* confidence_threshold=0.25

----------------------------------------------------------------------------
(* Characters.  The alphabet of the model: ASCII, the part of the Arabic   *)
(* block U+0600..U+06FF that the tables of the program use, and two         *)
(* characters outside both.                                                 *)

AsciiLower ==
    {"a", "b", "c", "d", "e", "f", "g", "h", "i", "j", "k", "l", "m",
     "n", "o", "p", "q", "r", "s", "t", "u", "v", "w", "x", "y", "z"}
AsciiUpper ==
    {"A", "B", "C", "D", "E", "F", "G", "H", "I", "J", "K", "L", "M",
     "N", "O", "P", "Q", "R", "S", "T", "U", "V", "W", "X", "Y", "Z"}
AsciiLetters == AsciiLower \cup AsciiUpper
AsciiDigits == {"0", "1", "2", "3", "4", "5", "6", "7", "8", "9"}
AsciiSpace == {" "}
AsciiPunctuation == {"?", "!", ".", ",", "'", "-", "+", "&", "*"}

\* the letters of arabic_chars in process_message and _preprocess_text
ArabicChars ==
    {"HAMZA", "ALEF_MADDA_ABOVE", "ALEF_HAMZA_ABOVE", "WAW_HAMZA_ABOVE",
     "ALEF_HAMZA_BELOW", "YEH_HAMZA_ABOVE", "ALEF", "BEH", "TEH_MARBUTA", "TEH",
     "THEH", "JEEM", "HAH", "KHAH", "DAL", "THAL", "REH", "ZAIN", "SEEN", "SHEEN",
     "SAD", "DAD", "TAH", "ZAH", "AIN", "GHAIN", "FEH", "QAF", "KAF", "LAM",
     "MEEM", "NOON", "HEH", "WAW", "ALEF_MAKSURA", "YEH"}
\* U+0686, a letter of the block that arabic_chars leaves out
ArabicOtherLetters == {"TCHEH"}
\* U+0660..U+0669
ArabicIndicDigits == {"AR0", "AR1", "AR2", "AR3", "AR4", "AR5", "AR6", "AR7", "AR8", "AR9"}
\* U+06F7, an extended Arabic-Indic digit
ExtendedArabicIndicDigits == {"XAR7"}
\* U+064B, U+064E, U+0651 and U+0670
ArabicMarks == {"AR_FATHATAN", "AR_FATHA", "AR_SHADDA", "SUPERSCRIPT_ALEF"}
\* U+0640
Tatweel == "AR_TATWEEL"
\* U+060C, U+061F
ArabicPunctuationChars == {"AR_COMMA", "AR_QUESTION_MARK"}
\* U+FDF2 and U+2019: neither ASCII nor in the Arabic block
LigatureChars == {"LIG_ALLAH_ISOLATED_FORM"}
OtherChars == {"RIGHT_SINGLE_QUOTATION_MARK"}

\* str.isascii() of one character
IsAscii(c) == c \in AsciiLetters \cup AsciiDigits \cup AsciiSpace \cup AsciiPunctuation

\* U+0600 <= c <= U+06FF
InArabicBlock(c) ==
    c \in ArabicChars \cup ArabicOtherLetters \cup ArabicIndicDigits
            \cup ExtendedArabicIndicDigits \cup ArabicMarks \cup {Tatweel}
            \cup ArabicPunctuationChars

----------------------------------------------------------------------------
(* Texts: Python str operations on sequences of characters *)

UpperOrder ==
    <<"A", "B", "C", "D", "E", "F", "G", "H", "I", "J", "K", "L", "M",
      "N", "O", "P", "Q", "R", "S", "T", "U", "V", "W", "X", "Y", "Z">>
LowerOrder ==
    <<"a", "b", "c", "d", "e", "f", "g", "h", "i", "j", "k", "l", "m",
      "n", "o", "p", "q", "r", "s", "t", "u", "v", "w", "x", "y", "z">>

\* str.lower() of one character
LowerChar(c) ==
    IF c \in AsciiUpper
    THEN LowerOrder[CHOOSE k \in 1..Len(UpperOrder) : UpperOrder[k] = c]
    ELSE c

\* str.lower()
Lower(text) == [k \in 1..Len(text) |-> LowerChar(text[k])]

\* str.isspace() of one character
IsSpace(c) == c \in AsciiSpace

\* \w of a str pattern: alphanumeric in any script (tatweel and the ligature
\* are letters; the Arabic marks and punctuation are not)
IsWordChar(c) ==
    c \in AsciiLetters \cup AsciiDigits \cup ArabicChars \cup ArabicOtherLetters
            \cup ArabicIndicDigits \cup ExtendedArabicIndicDigits \cup {Tatweel}
            \cup LigatureChars

\* kw in text
Contains(text, kw) ==
    \E k \in 0..(Len(text) - Len(kw)) : SubSeq(text, k + 1, k + Len(kw)) = kw

\* str.strip()
RECURSIVE LStrip(_)
LStrip(text) ==
    IF text # <<>> /\ IsSpace(Head(text)) THEN LStrip(Tail(text)) ELSE text

RECURSIVE RStrip(_)
RStrip(text) ==
    IF text # <<>> /\ IsSpace(text[Len(text)])
    THEN RStrip(SubSeq(text, 1, Len(text) - 1)) ELSE text

Strip(text) == RStrip(LStrip(text))

\* the smallest element of a set of numbers
Least(S) == CHOOSE x \in S : \A y \in S : x <= y

\* the end of the run of characters of class that starts at k
RunEnd(text, k, class) ==
    Least({j \in k..Len(text) : j = Len(text) \/ text[j + 1] \notin class})

\* str.split(): the words between runs of whitespace
WordFrom(text, k) ==
    SubSeq(text, k, Least({j \in k..Len(text) : j = Len(text) \/ IsSpace(text[j + 1])}))

WordsFrom(text, starts) ==
    <<>> \o [i \in 1..Cardinality(starts) |->
                WordFrom(text, CHOOSE k \in starts :
                                   Cardinality({j \in starts : j < k}) = i - 1)]

Split(text) ==
    WordsFrom(text, {k \in 1..Len(text) :
                       ~IsSpace(text[k]) /\ (k = 1 \/ IsSpace(text[k - 1]))})

\* ' '.join(words)
RECURSIVE JoinWords(_)
JoinWords(words) ==
    IF words = <<>> THEN <<>>
    ELSE IF Len(words) = 1 THEN words[1]
    ELSE words[1] \o <<" ">> \o JoinWords(Tail(words))

\* ' '.join(text.split())
NormalizeWhitespace(text) == JoinWords(Split(text))

\* the characters of text with those of drop removed: re.sub(class, '', text)
RemoveChars(text, drop) == SelectSeq(text, LAMBDA c : c \notin drop)

----------------------------------------------------------------------------
(* ChatbotService: the text normalizer *)

\* [a-zA-Z0-9]
LatinOrDigit == AsciiLetters \cup AsciiDigits

\* [U+0600-U+06FF]
ArabicBlock ==
    ArabicChars \cup ArabicOtherLetters \cup ArabicIndicDigits
        \cup ExtendedArabicIndicDigits \cup ArabicMarks \cup {Tatweel}
        \cup ArabicPunctuationChars

\* (first+)(second+) matches at k
PairAt(text, k, first, second) ==
    /\ text[k] \in first
    /\ RunEnd(text, k, first) < Len(text)
    /\ text[RunEnd(text, k, first) + 1] \in second

\* where the match of (first+)(second+) at k ends
PairEnd(text, k, first, second) ==
    RunEnd(text, RunEnd(text, k, first) + 1, second)

\* r'\1 \2' for the match of (first+)(second+) at k
PairSplit(text, k, first, second) ==
    SubSeq(text, k, RunEnd(text, k, first)) \o <<" ">>
        \o SubSeq(text, RunEnd(text, k, first) + 1, PairEnd(text, k, first, second))

\* re.sub(r'(first+)(second+)', r'\1 \2', text), scanning from k: the text up
\* to the leftmost match is kept, the match is replaced and the scan resumes
\* after it
RECURSIVE SubRunPair(_, _, _, _)
RECURSIVE SubRunPairAt(_, _, _, _, _)
SubRunPair(text, k, first, second) ==
    SubRunPairAt(text, k, first, second,
                 {p \in k..Len(text) : PairAt(text, p, first, second)})

SubRunPairAt(text, k, first, second, matches) ==
    IF matches = {} THEN SubSeq(text, k, Len(text))
    ELSE SubSeq(text, k, Least(matches) - 1)
             \o PairSplit(text, Least(matches), first, second)
             \o SubRunPair(text, PairEnd(text, Least(matches), first, second) + 1,
                           first, second)

\* mixed_pattern.sub: '(arabic+)(latin+)|(latin+)(arabic+)', scanning from k
RECURSIVE SubMixedPattern(_, _)
RECURSIVE SubMixedPatternAt(_, _, _)
SubMixedPattern(text, k) ==
    SubMixedPatternAt(text, k,
                      {p \in k..Len(text) :
                         \/ PairAt(text, p, ArabicBlock, LatinOrDigit)
                         \/ PairAt(text, p, LatinOrDigit, ArabicBlock)})

SubMixedPatternAt(text, k, matches) ==
    IF matches = {} THEN SubSeq(text, k, Len(text))
    ELSE IF text[Least(matches)] \in ArabicBlock
    THEN SubSeq(text, k, Least(matches) - 1)
             \o PairSplit(text, Least(matches), ArabicBlock, LatinOrDigit)
             \o SubMixedPattern(text, PairEnd(text, Least(matches), ArabicBlock,
                                              LatinOrDigit) + 1)
    ELSE SubSeq(text, k, Least(matches) - 1)
             \o PairSplit(text, Least(matches), LatinOrDigit, ArabicBlock)
             \o SubMixedPattern(text, PairEnd(text, Least(matches), LatinOrDigit,
                                              ArabicBlock) + 1)

\* split_mixed_script_tokens
SplitMixedScriptTokens(text) ==
    IF text = <<>> THEN <<>>
    ELSE NormalizeWhitespace(
             SubRunPair(SubRunPair(SubMixedPattern(text, 1), 1, ArabicBlock, LatinOrDigit),
                        1, LatinOrDigit, ArabicBlock))

\* ARABIC_TRANSLITERATION: the entries longer than one character, longest first
\* (sorted(..., key=len, reverse=True) is stable: equal lengths keep dict order)

TransliterationWords ==
    << << <<"a", "k", "s", "e", "s", "w", "a", "r", "a", "t">>, <<"ALEF", "KAF", "SEEN", "SEEN", "WAW", "ALEF", "REH", "ALEF", "TEH">> >>,
       << <<"m", "a", "s", "h", "r", "o", "u", "b">>, <<"MEEM", "SHEEN", "REH", "WAW", "BEH">> >>,
       << <<"a", "k", "s", "e", "s", "w", "a", "r">>, <<"ALEF", "KAF", "SEEN", "SEEN", "WAW", "ALEF", "REH">> >>,
       << <<"s", "e", "r", "a", "m", "i", "k">>, <<"SEEN", "YEH", "REH", "ALEF", "MEEM", "YEH", "KAF">> >>,
       << <<"m", "a", "n", "z", "i", "l", "i">>, <<"MEEM", "NOON", "ZAIN", "LAM", "YEH">> >>,
       << <<"7", "a", "b", "i", "b", "y">>, <<"HAH", "BEH", "YEH", "BEH", "YEH">> >>,
       << <<"m", "3", "a", "k", "o", "m">>, <<"MEEM", "AIN", "ALEF", "KAF", "MEEM">> >>,
       << <<"m", "3", "a", "h", "o", "m">>, <<"MEEM", "AIN", "ALEF", "HEH", "MEEM">> >>,
       << <<"f", "o", "k", "h", "a", "r">>, <<"FEH", "KHAH", "ALEF", "REH">> >>,
       << <<"r", "u", "k", "h", "a", "m">>, <<"REH", "KHAH", "ALEF", "MEEM">> >>,
       << <<"d", "i", "k", "o", "u", "r">>, <<"DAL", "YEH", "KAF", "WAW", "REH">> >>,
       << <<"a", "w", "a", "l", "i", "m">>, <<"ALEF_HAMZA_ABOVE", "WAW", "ALEF", "NOON", "YEH">> >>,
       << <<"s", "h", "a", "r", "i", "b">>, <<"SHEEN", "REH", "BEH">> >>,
       << <<"m", "a", "2", "i", "d", "a">>, <<"MEEM", "ALEF", "YEH_HAMZA_ABOVE", "DAL", "TEH_MARBUTA">> >>,
       << <<"h", "o", "m", "m", "a">>, <<"HEH", "MEEM", "ALEF">> >>,
       << <<"3", "a", "y", "e", "z">>, <<"AIN", "ALEF", "YEH", "ZAIN">> >>,
       << <<"3", "a", "w", "e", "z">>, <<"AIN", "ALEF", "WAW", "ZAIN">> >>,
       << <<"m", "3", "a", "n", "a">>, <<"MEEM", "AIN", "ALEF", "NOON", "ALEF">> >>,
       << <<"z", "u", "j", "a", "j">>, <<"ZAIN", "JEEM", "ALEF", "JEEM">> >>,
       << <<"k", "h", "s", "h", "b">>, <<"KHAH", "SHEEN", "BEH">> >>,
       << <<"t", "a", "3", "a", "m">>, <<"TAH", "AIN", "ALEF", "MEEM">> >>,
       << <<"t", "a", "b", "k", "h">>, <<"TAH", "BEH", "KHAH">> >>,
       << <<"a", "t", "b", "a", "k">>, <<"ALEF_HAMZA_ABOVE", "TAH", "BEH", "ALEF", "QAF">> >>,
       << <<"e", "n", "t", "a">>, <<"ALEF", "NOON", "TEH">> >>,
       << <<"e", "n", "t", "i">>, <<"ALEF", "NOON", "TEH", "YEH">> >>,
       << <<"h", "o", "w", "a">>, <<"HEH", "WAW">> >>,
       << <<"h", "e", "y", "a">>, <<"HEH", "YEH">> >>,
       << <<"e", "h", "n", "a">>, <<"ALEF", "HAH", "NOON", "ALEF">> >>,
       << <<"e", "n", "t", "o">>, <<"ALEF", "NOON", "TEH", "WAW">> >>,
       << <<"a", "y", "e", "z">>, <<"AIN", "ALEF", "YEH", "ZAIN">> >>,
       << <<"j", "e", "l", "d">>, <<"JEEM", "LAM", "DAL">> >>,
       << <<"z", "a", "n", "a">>, <<"ZAIN", "YEH", "NOON", "TEH_MARBUTA">> >>,
       << <<"a", "n", "a">>, <<"ALEF", "NOON", "ALEF">> >>,
       << <<"t", "h">>, <<"THEH">> >>,
       << <<"k", "h">>, <<"KHAH">> >>,
       << <<"s", "h">>, <<"SHEEN">> >>,
       << <<"g", "h">>, <<"GHAIN">> >> >>

\* ARABIC_TRANSLITERATION: the one-character entries (a repeated key keeps its
\* last value: "3", "6", "7" and "9" map to letters)

TransliterationChars ==
    << << "0", "AR0" >>,
       << "1", "AR1" >>,
       << "2", "AR2" >>,
       << "3", "AIN" >>,
       << "4", "AR4" >>,
       << "5", "AR5" >>,
       << "6", "DAD" >>,
       << "7", "HAH" >>,
       << "8", "AR8" >>,
       << "9", "SAD" >>,
       << "a", "ALEF" >>,
       << "b", "BEH" >>,
       << "t", "TEH" >>,
       << "g", "JEEM" >>,
       << "d", "DAL" >>,
       << "z", "ZAIN" >>,
       << "r", "REH" >>,
       << "s", "SEEN" >>,
       << "f", "FEH" >>,
       << "q", "QAF" >>,
       << "k", "KAF" >>,
       << "l", "LAM" >>,
       << "m", "MEEM" >>,
       << "n", "NOON" >>,
       << "h", "HEH" >>,
       << "w", "WAW" >>,
       << "y", "YEH" >>,
       << "p", "BEH" >>,
       << "v", "FEH" >>,
       << "e", "YEH" >>,
       << "o", "WAW" >>,
       << "u", "WAW" >> >>

\* re.sub(r'\b' + re.escape(translit) + r'\b', arabic, text, flags=re.IGNORECASE),
\* scanning from k
RECURSIVE SubWord(_, _, _, _)
RECURSIVE SubWordAt(_, _, _, _, _)
SubWord(text, k, translit, arabic) ==
    SubWordAt(text, k, translit, arabic,
              {p \in k..(Len(text) - Len(translit) + 1) :
                 /\ Lower(SubSeq(text, p, p + Len(translit) - 1)) = translit
                 /\ (p = 1 \/ ~IsWordChar(text[p - 1]))
                 /\ (p + Len(translit) - 1 = Len(text)
                        \/ ~IsWordChar(text[p + Len(translit)]))})

SubWordAt(text, k, translit, arabic, matches) ==
    IF matches = {} THEN SubSeq(text, k, Len(text))
    ELSE SubSeq(text, k, Least(matches) - 1) \o arabic
             \o SubWord(text, Least(matches) + Len(translit), translit, arabic)

\* the first loop of replace_transliterated_words, from table entry k on.
\* An entry whose word is nowhere in the text changes nothing: the loop goes
\* on from the next entry whose word is
RECURSIVE ReplaceWords(_, _)
RECURSIVE ReplaceWordsAt(_, _)
ReplaceWords(text, k) ==
    ReplaceWordsAt(text, {j \in k..Len(TransliterationWords) :
                            Contains(Lower(text), TransliterationWords[j][1])})

ReplaceWordsAt(text, occurring) ==
    IF occurring = {} THEN text
    ELSE ReplaceWords(SubWord(text, 1, TransliterationWords[Least(occurring)][1],
                              TransliterationWords[Least(occurring)][2]),
                      Least(occurring) + 1)

\* the second loop: text.replace(translit, arabic) for each one-character
\* entry; no replacement is the key of another entry
ReplaceChar(c) ==
    IF \E k \in 1..Len(TransliterationChars) : TransliterationChars[k][1] = c
    THEN TransliterationChars[CHOOSE k \in 1..Len(TransliterationChars) :
                                  TransliterationChars[k][1] = c][2]
    ELSE c

\* replace_transliterated_words
ReplaceChars(text) == <<>> \o [k \in 1..Len(text) |-> ReplaceChar(text[k])]

ReplaceTransliteratedWords(text) ==
    IF text = <<>> THEN <<>>
    ELSE ReplaceChars(ReplaceWords(text, 1))

\* ARABIC_DIACRITICS, within the alphabet: U+064B..U+065F (U+0670 is not in it)
ArabicDiacritics == ArabicMarks \ {"SUPERSCRIPT_ALEF"}

\* ARABIC_PUNCTUATION, within the alphabet: U+060C, U+061F and U+06F7..U+06F9
ArabicPunctuation == ArabicPunctuationChars \cup ExtendedArabicIndicDigits

AsciiDigitOrder == <<"0", "1", "2", "3", "4", "5", "6", "7", "8", "9">>
ArabicIndicDigitOrder ==
    <<"AR0", "AR1", "AR2", "AR3", "AR4", "AR5", "AR6", "AR7", "AR8", "AR9">>

\* str.translate(ARABIC_INDIC_DIGITS) of one character
TranslateDigit(c) ==
    IF c \in ArabicIndicDigits
    THEN AsciiDigitOrder[CHOOSE k \in 1..10 : ArabicIndicDigitOrder[k] = c]
    ELSE c

\* ChatbotService.normalize_arabic
TranslateDigits(text) == <<>> \o [k \in 1..Len(text) |-> TranslateDigit(text[k])]

\* re.sub(ARABIC_PUNCTUATION, ' ', text)
BlankPunctuation(text) ==
    <<>> \o [k \in 1..Len(text) |-> IF text[k] \in ArabicPunctuation THEN " " ELSE text[k]]

NormalizeArabic(text) ==
    IF text = <<>> THEN <<>>
    ELSE Strip(NormalizeWhitespace(RemoveChars(
             BlankPunctuation(TranslateDigits(
                 RemoveChars(RemoveChars(text, ArabicDiacritics), {Tatweel}))),
             LigatureChars)))

\* ARABIC_DIALECT_VARIANTS, in dict order: <<canonical, variants>>

DialectVariants ==
    << << <<"w", "a", "n", "t">>,
        {<<"AIN", "ALEF", "YEH", "ZAIN">>,
         <<"3", "a", "y", "e", "z">>,
         <<"AIN", "ALEF", "WAW", "ZAIN">>,
         <<"ALEF", "BEH", "GHAIN", "ALEF_MAKSURA">>,
         <<"ALEF", "REH", "YEH", "DAL">>,
         <<"AIN", "WAW", "ZAIN">>,
         <<"AIN", "ALEF", "YEH", "ZAIN", "TEH_MARBUTA">>,
         <<"AIN", "ALEF", "WAW", "ZAIN", "TEH_MARBUTA">>,
         <<"ALEF", "BEH", "GHAIN", "ALEF">>,
         <<"ALEF", "BEH", "GHAIN", "YEH">>} >>,
       << <<"n", "e", "e", "d">>,
        {<<"MEEM", "HAH", "TEH", "ALEF", "JEEM">>,
         <<"7", "t", "a", "j">>,
         <<"MEEM", "HAH", "TEH", "ALEF", "JEEM", "TEH_MARBUTA">>,
         <<"MEEM", "HAH", "TEH", "ALEF", "TCHEH">>,
         <<"MEEM", "HAH", "TEH", "ALEF", "TCHEH", "TEH_MARBUTA">>} >>,
       << <<"l", "i", "k", "e">>,
        {<<"BEH", "HAH", "BEH">>,
         <<"b", "7", "e", "b">>,
         <<"BEH", "HAH", "BEH", "HEH", "ALEF">>,
         <<"BEH", "HAH", "BEH", "HEH">>,
         <<"BEH", "HAH", "BEH", "WAW">>,
         <<"BEH", "HAH", "BEH", "HEH", "MEEM">>} >>,
       << <<"b", "u", "y">>,
        {<<"ALEF", "SHEEN", "TEH", "REH", "ALEF_MAKSURA">>,
         <<"ALEF", "SHEEN", "TEH", "REH", "YEH">>,
         <<"ALEF", "SHEEN", "TEH", "REH", "YEH", "TEH">>} >>,
       << <<"s", "e", "e">>,
        {<<"SHEEN", "WAW", "FEH">>,
         <<"s", "h", "o", "o", "f">>,
         <<"SHEEN", "ALEF", "YEH", "FEH">>,
         <<"SHEEN", "ALEF", "YEH", "FEH", "TEH_MARBUTA">>,
         <<"SHEEN", "ALEF", "YEH", "FEH", "YEH", "NOON">>} >>,
       << <<"c", "h", "e", "a", "p">>,
        {<<"REH", "KHAH", "YEH", "SAD">>,
         <<"r", "a", "k", "h", "e", "e", "s">>,
         <<"REH", "KHAH", "YEH", "SAD", "TEH_MARBUTA">>,
         <<"MEEM", "SHEEN", " ", "GHAIN", "ALEF", "LAM", "YEH", "TEH_MARBUTA">>,
         <<"REH", "KHAH", "YEH", "SAD", "HEH">>,
         <<"REH", "KHAH", "YEH", "SAD", "YEH", "NOON">>} >>,
       << <<"e", "x", "p", "e", "n", "s", "i", "v", "e">>,
        {<<"GHAIN", "ALEF", "LAM", "YEH">>,
         <<"GHAIN", "ALEF", "LAM", "YEH", "TEH_MARBUTA">>,
         <<"MEEM", "KAF", "LAM", "FEH">>,
         <<"GHAIN", "ALEF", "LAM", "YEH", "HEH">>,
         <<"GHAIN", "ALEF", "LAM", "YEH", "NOON">>,
         <<"MEEM", "KAF", "LAM", "FEH", "TEH_MARBUTA">>,
         <<"MEEM", "KAF", "LAM", "FEH", "YEH", "NOON">>} >>,
       << <<"p", "r", "i", "c", "e">>,
        {<<"SEEN", "AIN", "REH">>,
         <<"ALEF", "LAM", "SEEN", "AIN", "REH">>,
         <<"ALEF", "LAM", "TEH", "KAF", "LAM", "FEH", "TEH_MARBUTA">>,
         <<"ALEF", "LAM", "TEH", "KAF", "LAM", "FEH", "HEH">>} >>,
       << <<"d", "i", "s", "c", "o", "u", "n", "t">>,
        {<<"KHAH", "SAD", "MEEM">>,
         <<"ALEF", "LAM", "KHAH", "SAD", "MEEM">>,
         <<"TEH", "KHAH", "FEH", "YEH", "DAD">>,
         <<"ALEF", "LAM", "TEH", "KHAH", "FEH", "YEH", "DAD">>} >>,
       << <<"p", "r", "o", "d", "u", "c", "t">>,
        {<<"MEEM", "NOON", "TEH", "JEEM">>,
         <<"MEEM", "NOON", "TEH", "JEEM", "ALEF", "TEH">>,
         <<"i", "t", "e", "m", "s">>,
         <<"HAH", "ALEF", "JEEM", "TEH_MARBUTA">>,
         <<"HAH", "ALEF", "JEEM", "ALEF", "TEH">>,
         <<"SHEEN", "YEH", "HAMZA">>,
         <<"ALEF", "SHEEN", "YEH", "ALEF", "HAMZA">>,
         <<"SHEEN", "YEH">>} >>,
       << <<"q", "u", "a", "l", "i", "t", "y">>,
        {<<"JEEM", "WAW", "DAL", "TEH_MARBUTA">>,
         <<"ALEF", "LAM", "JEEM", "WAW", "DAL", "TEH_MARBUTA">>,
         <<"NOON", "WAW", "AIN", "YEH", "TEH_MARBUTA">>,
         <<"ALEF", "LAM", "NOON", "WAW", "AIN", "YEH", "TEH_MARBUTA">>} >>,
       << <<"n", "e", "w">>,
        {<<"JEEM", "DAL", "YEH", "DAL">>,
         <<"JEEM", "DAL", "YEH", "DAL", "TEH_MARBUTA">>,
         <<"JEEM", "DAL", "YEH", "DAL", "YEH", "NOON">>,
         <<"JEEM", "DAL", "YEH", "DAL", "HEH">>} >>,
       << <<"o", "l", "d">>,
        {<<"QAF", "DAL", "YEH", "MEEM">>,
         <<"QAF", "DAL", "YEH", "MEEM", "TEH_MARBUTA">>,
         <<"QAF", "DAL", "YEH", "MEEM", "YEH", "NOON">>,
         <<"QAF", "DAL", "YEH", "MEEM", "HEH">>} >>,
       << <<"b", "e", "a", "u", "t", "i", "f", "u", "l">>,
        {<<"JEEM", "MEEM", "YEH", "LAM">>,
         <<"JEEM", "MEEM", "YEH", "LAM", "TEH_MARBUTA">>,
         <<"JEEM", "MEEM", "YEH", "LAM", "YEH", "NOON">>,
         <<"JEEM", "MEEM", "YEH", "LAM", "HEH">>,
         <<"HAH", "LAM", "WAW">>,
         <<"HAH", "LAM", "WAW", "TEH_MARBUTA">>,
         <<"HAH", "LAM", "WAW", "YEH", "NOON">>} >>,
       << <<"g", "o", "o", "d">>,
        {<<"KAF", "WAW", "YEH", "ZAIN">>,
         <<"KAF", "WAW", "YEH", "SEEN">>,
         <<"KAF", "WAW", "YEH", "SEEN", "TEH_MARBUTA">>,
         <<"KAF", "WAW", "YEH", "SEEN", "YEH", "NOON">>,
         <<"KAF", "WAW", "YEH", "SEEN", "HEH">>} >>,
       << <<"b", "a", "d">>,
        {<<"WAW", "HAH", "SHEEN">>,
         <<"WAW", "HAH", "SHEEN", "TEH_MARBUTA">>,
         <<"WAW", "HAH", "SHEEN", "YEH", "NOON">>,
         <<"WAW", "HAH", "SHEEN", "HEH">>,
         <<"SEEN", "YEH", "HAMZA">>,
         <<"SEEN", "YEH", "YEH_HAMZA_ABOVE", "TEH_MARBUTA">>,
         <<"SEEN", "YEH", "YEH_HAMZA_ABOVE", "YEH", "NOON">>} >>,
       << <<"s", "h", "o", "p">>,
        {<<"MEEM", "TEH", "JEEM", "REH">>,
         <<"ALEF", "LAM", "MEEM", "TEH", "JEEM", "REH">>,
         <<"MEEM", "HAH", "LAM">>,
         <<"ALEF", "LAM", "MEEM", "HAH", "LAM">>,
         <<"DAL", "KAF", "ALEF", "NOON">>,
         <<"ALEF", "LAM", "DAL", "KAF", "ALEF", "NOON">>} >>,
       << <<"s", "t", "o", "r", "e">>,
        {<<"MEEM", "TEH", "JEEM", "REH">>,
         <<"ALEF", "LAM", "MEEM", "TEH", "JEEM", "REH">>,
         <<"MEEM", "HAH", "LAM">>,
         <<"ALEF", "LAM", "MEEM", "HAH", "LAM">>,
         <<"DAL", "KAF", "ALEF", "NOON">>,
         <<"ALEF", "LAM", "DAL", "KAF", "ALEF", "NOON">>} >>,
       << <<"s", "e", "l", "l", "e", "r">>,
        {<<"BEH", "ALEF", "YEH_HAMZA_ABOVE", "AIN">>,
         <<"ALEF", "LAM", "BEH", "ALEF", "YEH_HAMZA_ABOVE", "AIN">>,
         <<"BEH", "ALEF", "YEH_HAMZA_ABOVE", "AIN", "TEH_MARBUTA">>,
         <<"ALEF", "LAM", "BEH", "ALEF", "YEH_HAMZA_ABOVE", "AIN", "TEH_MARBUTA">>,
         <<"BEH", "ALEF", "YEH_HAMZA_ABOVE", "AIN", "YEH", "NOON">>,
         <<"ALEF", "LAM", "BEH", "ALEF", "YEH_HAMZA_ABOVE", "AIN", "YEH", "NOON">>} >>,
       << <<"a", "r", "t", "i", "s", "a", "n">>,
        {<<"HAH", "REH", "FEH", "YEH">>,
         <<"ALEF", "LAM", "HAH", "REH", "FEH", "YEH">>,
         <<"HAH", "REH", "FEH", "YEH", "TEH_MARBUTA">>,
         <<"ALEF", "LAM", "HAH", "REH", "FEH", "YEH", "TEH_MARBUTA">>,
         <<"HAH", "REH", "FEH", "YEH", "YEH", "NOON">>,
         <<"ALEF", "LAM", "HAH", "REH", "FEH", "YEH", "YEH", "NOON">>} >> >>

\* canonical in expanded_words
InWords(words, w) == \E k \in 1..Len(words) : words[k] = w

\* the inner loop of expand_dialect_variants for one word: the first table
\* entry that lists the word and whose canonical form is not yet there is
\* appended, and the loop breaks
ExpandWord(word, expanded) ==
    LET entries == {k \in 1..Len(DialectVariants) :
                      /\ word \in DialectVariants[k][2]
                      /\ ~InWords(expanded, DialectVariants[k][1])}
    IN IF entries = {} THEN expanded
       ELSE Append(expanded, DialectVariants[Least(entries)][1])

\* the outer loop of expand_dialect_variants, from word k on
RECURSIVE ExpandWords(_, _, _)
ExpandWords(words, expanded, k) ==
    IF k > Len(words) THEN expanded
    ELSE IF Len(words[k]) < 3 THEN ExpandWords(words, expanded, k + 1)
         ELSE ExpandWords(words, ExpandWord(words[k], expanded), k + 1)

\* expand_dialect_variants
ExpandDialectVariants(text) ==
    IF text = <<>> THEN <<>>
    ELSE JoinWords(ExpandWords(Split(text), Split(text), 1))

\* _preprocess_text: the cleaned message and the is_mixed flag
PreprocessText(message, lang) ==
    LET has_english == \E k \in 1..Len(message) : message[k] \in AsciiLetters
        has_arabic == \E k \in 1..Len(message) : message[k] \in ArabicChars
        is_mixed == has_english /\ has_arabic
    IN IF lang = "en" /\ ~is_mixed THEN <<Strip(message), FALSE>>
       ELSE IF lang = "ar" \/ is_mixed
            THEN <<Strip(ExpandDialectVariants(NormalizeArabic(
                       ReplaceTransliteratedWords(SplitMixedScriptTokens(message))))),
                   is_mixed>>
            ELSE <<Strip(message), is_mixed>>

----------------------------------------------------------------------------
(* Python's re on sequences of characters.  A pattern is a tree:            *)
(*   <<"chars", S>>          one character of the set S                     *)
(*   <<"lit", s>>            the characters of s                            *)
(*   <<"seq", <<n1, ...>>>>  n1 then n2 ...                                 *)
(*   <<"alt", <<n1, ...>>>>  n1|n2|..., the leftmost alternative first      *)
(*   <<"rep", n, lo, hi>>    greedy repetition n{lo,hi}; hi = -1 is no limit *)
(*   <<"grp", i, n>>         capturing group number i                       *)
(*   <<"wb">>                \b                                             *)
(*   <<"ahead", n>>          (?=n)                                          *)
(*   <<"nahead", n>>         (?!n)                                          *)
(* A match attempt at offset p returns the ways to match in the order the   *)
(* backtracking matcher tries them, each <<end offset, groups>>.            *)

\* \d of a str pattern: a decimal digit of any script
Digits == AsciiDigits \cup ArabicIndicDigits \cup ExtendedArabicIndicDigits

\* \s
Whitespace == AsciiSpace

NoGroup == <<-1, -1>>
NoGroups == <<NoGroup, NoGroup>>

\* \b at offset p: exactly one side is a word character
AtWordBoundary(t, p) ==
    (p > 0 /\ IsWordChar(t[p])) # (p < Len(t) /\ IsWordChar(t[p + 1]))

\* Match(n, t, p, g): the ways n matches t at offset p with the groups g, in
\* the order a backtracking matcher tries them; each is <<end, groups>>
\* the ways rs of the body of group i, each with the span of the group set
Captured(rs, i, p) ==
    <<>> \o [k \in 1..Len(rs) |-> <<rs[k][1], [rs[k][2] EXCEPT ![i] = <<p, rs[k][1]>>]>>]

RECURSIVE Match(_, _, _, _)
RECURSIVE MatchEach(_, _, _, _)
RECURSIVE MatchSeq(_, _, _, _)
RECURSIVE MatchAlt(_, _, _, _, _)
RECURSIVE MatchRep(_, _, _, _, _, _, _)
RECURSIVE MatchRepRest(_, _, _, _, _, _, _, _)

Match(n, t, p, g) ==
    CASE n[1] = "chars" ->
             IF p < Len(t) /\ t[p + 1] \in n[2] THEN << <<p + 1, g>> >> ELSE <<>>
      [] n[1] = "lit" ->
             IF p + Len(n[2]) <= Len(t) /\ SubSeq(t, p + 1, p + Len(n[2])) = n[2]
             THEN << <<p + Len(n[2]), g>> >> ELSE <<>>
      [] n[1] = "seq" -> MatchSeq(n[2], 1, t, << <<p, g>> >>)
      [] n[1] = "alt" -> MatchAlt(n[2], 1, t, p, g)
      [] n[1] = "rep" -> MatchRep(n[2], n[3], n[4], 0, t, p, g)
      [] n[1] = "grp" -> Captured(Match(n[3], t, p, g), n[2], p)
      [] n[1] = "wb" -> IF AtWordBoundary(t, p) THEN << <<p, g>> >> ELSE <<>>
      [] n[1] = "ahead" ->
             IF Match(n[2], t, p, g) # <<>> THEN << <<p, g>> >> ELSE <<>>
      [] n[1] = "nahead" ->
             IF Match(n[2], t, p, g) = <<>> THEN << <<p, g>> >> ELSE <<>>

\* the ways n matches from each of the ways rs, from way j on
MatchEach(rs, j, n, t) ==
    IF j > Len(rs) THEN <<>>
    ELSE Match(n, t, rs[j][1], rs[j][2]) \o MatchEach(rs, j + 1, n, t)

\* the ways the nodes from k on match after the ways rs of those before k
MatchSeq(nodes, k, t, rs) ==
    IF rs = <<>> \/ k > Len(nodes) THEN rs
    ELSE MatchSeq(nodes, k + 1, t, MatchEach(rs, 1, nodes[k], t))

MatchAlt(nodes, k, t, p, g) ==
    IF k > Len(nodes) THEN <<>>
    ELSE Match(nodes[k], t, p, g) \o MatchAlt(nodes, k + 1, t, p, g)

MatchRep(n, lo, hi, count, t, p, g) ==
    (IF hi = -1 \/ count < hi
     THEN MatchRepRest(Match(n, t, p, g), 1, n, lo, hi, count, t, p)
     ELSE <<>>)
    \o (IF count >= lo THEN << <<p, g>> >> ELSE <<>>)

MatchRepRest(rs, j, n, lo, hi, count, t, p) ==
    IF j > Len(rs) THEN <<>>
    ELSE (IF rs[j][1] > p
          THEN MatchRep(n, lo, hi, count + 1, t, rs[j][1], rs[j][2])
          ELSE <<>>)
         \o MatchRepRest(rs, j + 1, n, lo, hi, count, t, p)

\* a match object: where it starts and ends and what the groups span
NoMatch == [found |-> FALSE, start |-> 0, end |-> 0, groups |-> NoGroups]

\* re.search(pattern, t) from offset p on: the leftmost offset where the
\* pattern matches, with the match of the highest priority there
MatchObject(start, way) ==
    [found |-> TRUE, start |-> start, end |-> way[1], groups |-> way[2]]

FirstMatch(n, t, starts) ==
    IF starts = {} THEN NoMatch
    ELSE MatchObject(Least(starts), Match(n, t, Least(starts), NoGroups)[1])

SearchFrom(n, t, p) ==
    FirstMatch(n, t, {q \in p..Len(t) : Match(n, t, q, NoGroups) # <<>>})

Search(n, t) == SearchFrom(n, t, 0)

\* re.finditer(pattern, t): the non-overlapping matches, left to right
RECURSIVE FindAllFrom(_, _, _)
RECURSIVE FindAllAfter(_, _, _)
FindAllFrom(n, t, p) == FindAllAfter(n, t, SearchFrom(n, t, p))

FindAllAfter(n, t, m) ==
    IF ~m.found THEN <<>>
    ELSE <<m>> \o FindAllFrom(n, t, IF m.end > m.start THEN m.end ELSE m.end + 1)

FindAll(n, t) == FindAllFrom(n, t, 0)

\* match.group(i): "" for a group that did not take part
Group(m, t, i) ==
    IF m.groups[i] = NoGroup THEN <<>>
    ELSE SubSeq(t, m.groups[i][1] + 1, m.groups[i][2])

\* match.lastindex: 0 stands for None
LastIndex(m) ==
    IF m.groups[2] # NoGroup THEN 2 ELSE IF m.groups[1] # NoGroup THEN 1 ELSE 0

\* pattern builders
Lit(s) == <<"lit", s>>
Chars(S) == <<"chars", S>>
Cat(nodes) == <<"seq", nodes>>
Alt(nodes) == <<"alt", nodes>>
Star(n) == <<"rep", n, 0, -1>>
Plus(n) == <<"rep", n, 1, -1>>
Opt(n) == <<"rep", n, 0, 1>>
Grp(i, n) == <<"grp", i, n>>
WordBoundary == <<"wb">>
Ahead(n) == <<"ahead", n>>
NotAhead(n) == <<"nahead", n>>

----------------------------------------------------------------------------
(* Numbers.  A price is a whole number of pounds; a rating or a weight is   *)
(* kept in hundredths.                                                      *)

Hundredths == 10 * 10

\* float('inf')
Infinity == 1000 * 1000 * 1000

ExtendedArabicIndicDigitOrder ==
    <<"XAR0", "XAR1", "XAR2", "XAR3", "XAR4", "XAR5", "XAR6", "XAR7", "XAR8", "XAR9">>

\* the value int() and float() give a decimal digit of any script
DigitValue(c) ==
    IF c \in AsciiDigits THEN (CHOOSE k \in 1..10 : AsciiDigitOrder[k] = c) - 1
    ELSE IF c \in ArabicIndicDigits
         THEN (CHOOSE k \in 1..10 : ArabicIndicDigitOrder[k] = c) - 1
         ELSE (CHOOSE k \in 1..10 : ExtendedArabicIndicDigitOrder[k] = c) - 1

\* float(s) of a string of digits
RECURSIVE ParseInt(_)
ParseInt(s) ==
    IF s = <<>> THEN 0
    ELSE 10 * ParseInt(SubSeq(s, 1, Len(s) - 1)) + DigitValue(s[Len(s)])

\* float(s) of digits with at most one ".", in hundredths (further decimals
\* are dropped); ok is FALSE where float raises ValueError
ParseDecimal(s) ==
    LET dots == {k \in 1..Len(s) : s[k] = "."}
        dot == IF dots = {} THEN Len(s) + 1 ELSE CHOOSE k \in dots : TRUE
        whole == SubSeq(s, 1, dot - 1)
        frac == SubSeq(s, dot + 1, Len(s))
        f1 == IF Len(frac) >= 1 THEN DigitValue(frac[1]) ELSE 0
        f2 == IF Len(frac) >= 2 THEN DigitValue(frac[2]) ELSE 0
    IN [ok |-> Cardinality(dots) <= 1 /\ Len(whole) + Len(frac) > 0,
        value |-> ParseInt(whole) * Hundredths + 10 * f1 + f2]

Max(a, b) == IF a >= b THEN a ELSE b

----------------------------------------------------------------------------
(* fuzzywuzzy: fuzz.ratio(a, b) = round(100 * 2 * M / T), M the matched     *)
(* characters (the longest common subsequence), T the two lengths together  *)

\* the largest element of a non-empty set of numbers
Greatest(S) == CHOOSE x \in S : \A y \in S : x >= y

\* the row for the first i characters of a: entry j + 1 is the longest common
\* subsequence of that prefix with the first j characters of b.  The last
\* character of the prefix is left out, or matched with an equal b[k]
LcsNextRow(prev, c, b) ==
    <<>> \o [j \in 1..(Len(b) + 1) |->
                Greatest({prev[j]}
                    \cup {prev[k] + 1 : k \in {h \in 1..(j - 1) : b[h] = c}})]

RECURSIVE LcsRow(_, _, _)
LcsRow(a, b, i) ==
    IF i = 0 THEN <<>> \o [j \in 1..(Len(b) + 1) |-> 0]
    ELSE LcsNextRow(LcsRow(a, b, i - 1), a[i], b)

Lcs(a, b) == LcsRow(a, b, Len(a))[Len(b) + 1]

\* round(): a tie goes to the even neighbour
RoundDiv(n, d) ==
    LET q == n \div d
        r == n % d
    IN IF 2 * r > d THEN q + 1
       ELSE IF 2 * r = d THEN q + (q % 2)
       ELSE q

FuzzRatio(a, b) ==
    IF a = <<>> \/ b = <<>> THEN 0
    ELSE IF a = b THEN 100
    ELSE RoundDiv(200 * Lcs(a, b), Len(a) + Len(b))

----------------------------------------------------------------------------
(* ChatbotService: the entity extractor                                     *)

\* the characters str.upper() changes
UpperChar(c) ==
    IF c \in AsciiLower
    THEN UpperOrder[CHOOSE k \in 1..Len(LowerOrder) : LowerOrder[k] = c]
    ELSE c

\* str.capitalize()
Capitalize(s) ==
    [k \in 1..Len(s) |-> IF k = 1 THEN UpperChar(s[k]) ELSE LowerChar(s[k])]

\* the normalize_arabic local to _extract_entities and _classify_intent:
\* removes U+064B..U+065F and U+0670, and translates the Arabic-Indic digits
LocalNormalizeArabic(text) == TranslateDigits(RemoveChars(text, ArabicMarks))

\* text_lower
TextLower(text, lang) ==
    IF lang = "ar" THEN LocalNormalizeArabic(Lower(text)) ELSE Lower(text)

\* the collections the extractor reads: product titles, category names,
\* <<subcategory name, category name>>, artisan names, and the distinct
\* values of the colors, size and weight fields
Db ==
    [titles |-> { <<"B", "l", "u", "e", " ", "V", "a", "s", "e">> },
     categories |-> { <<"G", "l", "a", "s", "s">>, <<"W", "o", "o", "d">> },
     subcategories |-> { << <<"D", "r", "i", "n", "k", "w", "a", "r", "e">>, <<"C", "e", "r", "a", "m", "i", "c", "s", " ", "&", " ", "P", "o", "t", "t", "e", "r", "y">> >> },
     artisans |-> { <<"M", "o", "n", "a">> },
     colors |-> { <<"R", "e", "d">>, <<"B", "l", "u", "e">> },
     sizes |-> { <<"S", "m", "a", "l", "l">> },
     weights |-> { <<"1", "k", "g">> }]

\* entities as _extract_entities initializes them; <<>> is the None of
\* price_range and NoRating the None of rating
NoRating == 0 - 1

EmptyEntities ==
    [descriptions |-> {}, categories |-> {}, subcategories |-> {},
     price_range |-> <<>>, rating |-> NoRating, locations |-> {},
     artisans |-> {}, colors |-> {}, size |-> {}, weights |-> {},
     product_titles |-> {}]

\* product titles found in the text as they are
ProductTitles(text_lower) ==
    {title \in Db.titles : Contains(text_lower, LocalNormalizeArabic(Lower(title)))}

Spaces == Star(Chars(Whitespace))
Spaces1 == Plus(Chars(Whitespace))
Number == Plus(Chars(Digits))
PoundsOrEgp == Alt(<<Lit(<<"p", "o", "u", "n", "d", "s">>), Lit(<<"e", "g", "p">>)>>)
\* (?:X|Xa?) with X the word for pound
Geneh ==
    Alt(<<Lit(<<"JEEM", "NOON", "YEH", "HEH">>),
          Cat(<<Lit(<<"JEEM", "NOON", "YEH", "HEH">>), Opt(Lit(<<"ALEF">>))>>)>>)

\* price_patterns: what the match means is "cheap" (0 to 200), "expensive"
\* (500 and more) or "groups" (the prices are the captured groups)
PricePatterns ==
    [en |->
        << [kind |-> "groups",    \* under\s+(\d+)\s*(?:pounds|egp)
            re |-> Cat(<<Lit(<<"u", "n", "d", "e", "r">>), Spaces1, Grp(1, Number), Spaces, PoundsOrEgp>>)],
           [kind |-> "groups",    \* below\s+(\d+)\s*(?:pounds|egp)
            re |-> Cat(<<Lit(<<"b", "e", "l", "o", "w">>), Spaces1, Grp(1, Number), Spaces, PoundsOrEgp>>)],
           [kind |-> "groups",    \* less\s+than\s+(\d+)\s*(?:pounds|egp)
            re |-> Cat(<<Lit(<<"l", "e", "s", "s">>), Spaces1, Lit(<<"t", "h", "a", "n">>), Spaces1,
                         Grp(1, Number), Spaces, PoundsOrEgp>>)],
           [kind |-> "groups",    \* (\d+)\s*to\s*(\d+)\s*(?:pounds|egp)
            re |-> Cat(<<Grp(1, Number), Spaces, Lit(<<"t", "o">>), Spaces,
                         Grp(2, Number), Spaces, PoundsOrEgp>>)] >>,
     ar |->
        << [kind |-> "groups",
            re |-> Cat(<<Lit(<<"TEH", "HAH", "TEH">>), Spaces1, Grp(1, Number), Spaces, Geneh>>)],
           [kind |-> "groups",
            re |-> Cat(<<Lit(<<"ALEF_HAMZA_ABOVE", "QAF", "LAM">>), Spaces1, Lit(<<"MEEM", "NOON">>), Spaces1,
                         Grp(1, Number), Spaces, Geneh>>)],
           [kind |-> "groups",
            re |-> Cat(<<Lit(<<"MEEM", "NOON">>), Spaces1, Grp(1, Number), Spaces,
                         Lit(<<"ALEF_HAMZA_BELOW", "LAM", "ALEF_MAKSURA">>), Spaces, Grp(2, Number), Spaces, Geneh>>)],
           [kind |-> "cheap", re |-> Lit(<<"REH", "KHAH", "YEH", "SAD">>)],
           [kind |-> "expensive", re |-> Lit(<<"GHAIN", "ALEF", "LAM", "YEH">>)] >>]

\* the price loop: the first pattern that matches decides,
\* and a two-price match with min > max leaves the range None
PriceOf(kind, m, text_lower) ==
    IF kind = "cheap" THEN <<0, 200>>
    ELSE IF kind = "expensive" THEN <<500, Infinity>>
    ELSE IF LastIndex(m) = 2
         THEN LET min_price == ParseInt(LocalNormalizeArabic(Group(m, text_lower, 1)))
                  max_price == ParseInt(LocalNormalizeArabic(Group(m, text_lower, 2)))
              IN IF min_price <= max_price THEN <<min_price, max_price>> ELSE <<>>
         ELSE <<0, ParseInt(LocalNormalizeArabic(Group(m, text_lower, 1)))>>

FirstPrice(patterns, text_lower, matching) ==
    IF matching = {} THEN <<>>
    ELSE PriceOf(patterns[Least(matching)].kind,
                 Search(patterns[Least(matching)].re, text_lower), text_lower)

PriceLoop(patterns, text_lower) ==
    FirstPrice(patterns, text_lower,
               {k \in 1..Len(patterns) : Search(patterns[k].re, text_lower).found})

PriceRange(text_lower, lang) ==
    IF lang \in DOMAIN PricePatterns THEN PriceLoop(PricePatterns[lang], text_lower)
    ELSE <<>>

\* weight_pattern, by language
WeightPattern(lang) ==
    LET decimal == Cat(<<Star(Chars(Digits)), Opt(Lit(<<".">>)), Star(Chars(Digits))>>)
    IN IF lang = "ar"
       THEN Cat(<<Opt(Alt(<<Lit(<<"BEH", "ALEF", "LAM", "DAD", "BEH", "TAH">>), Lit(<<"HAH", "WAW", "ALEF", "LAM", "YEH">>),
                            Cat(<<Lit(<<"ALEF_HAMZA_ABOVE", "KAF", "THEH", "REH">>), Spaces1, Lit(<<"MEEM", "NOON">>)>>),
                            Lit(<<"FEH", "WAW", "QAF">>)>>)),
                  Spaces, Grp(1, decimal), Spaces,
                  Grp(2, Alt(<<Lit(<<"KAF", "JEEM", "MEEM">>), Lit(<<"JEEM", "MEEM">>), Lit(<<"KAF", "YEH", "LAM", "WAW">>), Lit(<<"JEEM", "REH", "ALEF", "MEEM">>)>>)),
                  WordBoundary>>)
       ELSE Cat(<<Opt(Alt(<<Lit(<<"e", "x", "a", "c", "t", "l", "y">>), Lit(<<"a", "r", "o", "u", "n", "d">>),
                            Cat(<<Lit(<<"m", "o", "r", "e">>), Spaces1, Lit(<<"t", "h", "a", "n">>)>>),
                            Lit(<<"o", "v", "e", "r">>)>>)),
                  Spaces, Grp(1, decimal), Spaces,
                  Grp(2, Alt(<<Lit(<<"k", "g">>), Lit(<<"g">>), Lit(<<"k", "i", "l", "o", "g", "r", "a", "m">>), Lit(<<"g", "r", "a", "m">>)>>)),
                  WordBoundary>>)

\* a weight is <<hundredths, unit>>; a weight word or value is <<-1, word>>
WeightWord(w) == <<0 - 1, w>>

\* the weights the pattern finds: (num, unit) with num > 0
WeightsOf(ms, text_lower) ==
    { <<ParseDecimal(Group(ms[k], text_lower, 1)).value, Group(ms[k], text_lower, 2)>> :
        k \in {j \in 1..Len(ms) :
                 /\ Group(ms[j], text_lower, 1) # <<>>
                 /\ ParseDecimal(Group(ms[j], text_lower, 1)).ok
                 /\ ParseDecimal(Group(ms[j], text_lower, 1)).value > 0} }

MeasuredWeights(text_lower, lang) ==
    WeightsOf(FindAll(WeightPattern(lang), text_lower), text_lower)

\* the weight words, tried when the pattern found no weight
KeywordWeights(text_lower, lang) ==
    LET light == IF lang = "ar" THEN <<"KHAH", "FEH", "YEH", "FEH">> ELSE <<"l", "i", "g", "h", "t">>
        medium == IF lang = "ar" THEN <<"MEEM", "TEH", "WAW", "SEEN", "TAH">> ELSE <<"m", "e", "d", "i", "u", "m">>
        heavy == IF lang = "ar" THEN <<"TEH", "QAF", "YEH", "LAM">> ELSE <<"h", "e", "a", "v", "y">>
    IN IF Contains(text_lower, light) THEN {WeightWord(<<"l", "i", "g", "h", "t">>)}
       ELSE IF Contains(text_lower, medium) THEN {WeightWord(<<"m", "e", "d", "i", "u", "m">>)}
       ELSE IF Contains(text_lower, heavy) THEN {WeightWord(<<"h", "e", "a", "v", "y">>)}
       ELSE {}

MeasuredOr(measured, keyword) == IF measured # {} THEN measured ELSE keyword

Weights(text_lower, lang) ==
    MeasuredOr(MeasuredWeights(text_lower, lang), KeywordWeights(text_lower, lang))

AsciiNumber == Plus(Chars(AsciiDigits))
AsciiDecimal == Cat(<<AsciiNumber, Opt(Cat(<<Lit(<<".">>), AsciiNumber>>))>>)
AnyNumber == Plus(Chars(AsciiDigits \cup ArabicIndicDigits))
AnyDecimal == Cat(<<AnyNumber, Opt(Cat(<<Lit(<<".">>), AnyNumber>>))>>)

\* rating_patterns: args is the number of arguments the handler takes
RatingPatterns ==
    [en |->
        << [args |-> 1,    \* ([0-9]+(?:\.[0-9]+)?)\s*stars?
            re |-> Cat(<<Grp(1, AsciiDecimal), Spaces, Lit(<<"s", "t", "a", "r">>), Opt(Lit(<<"s">>))>>)],
           [args |-> 0, re |-> Cat(<<Lit(<<"h", "i", "g", "h">>), Spaces1, Lit(<<"r", "a", "t", "e", "d">>)>>)],
           [args |-> 0, re |-> Lit(<<"e", "x", "c", "e", "l", "l", "e", "n", "t">>)],
           [args |-> 0, re |-> Cat(<<Lit(<<"v", "e", "r", "y">>), Spaces1, Lit(<<"g", "o", "o", "d">>)>>)],
           [args |-> 0, re |-> Lit(<<"g", "o", "o", "d">>)],
           [args |-> 0, re |-> Lit(<<"a", "v", "e", "r", "a", "g", "e">>)],
           [args |-> 0, re |-> Lit(<<"b", "a", "d">>)] >>,
     ar |->
        << [args |-> 1,
            re |-> Cat(<<Grp(1, AnyDecimal), Spaces, Lit(<<"NOON", "JEEM", "WAW">>), Opt(Lit(<<"MEEM">>))>>)],
           [args |-> 0, re |-> Cat(<<Lit(<<"TEH", "QAF", "YEH", "YEH", "MEEM">>), Spaces1, Lit(<<"AIN", "ALEF", "LAM">>)>>)],
           [args |-> 0, re |-> Lit(<<"MEEM", "MEEM", "TEH", "ALEF", "ZAIN">>)],
           [args |-> 0, re |-> Cat(<<Lit(<<"JEEM", "YEH", "DAL">>), Spaces1, Lit(<<"JEEM", "DAL", "ALEF">>)>>)],
           [args |-> 0, re |-> Lit(<<"JEEM", "YEH", "DAL">>)],
           [args |-> 0, re |-> Lit(<<"MEEM", "TEH", "WAW", "SEEN", "TAH">>)],
           [args |-> 0, re |-> Lit(<<"SEEN", "YEH", "HAMZA">>)],
           [args |-> 1,
            re |-> Cat(<<Lit(<<"NOON", "JEEM", "WAW", "MEEM">>), Spaces1, Lit(<<"ALEF_HAMZA_ABOVE", "KAF", "THEH", "REH">>), Spaces1, Lit(<<"MEEM", "NOON">>),
                         Spaces1, Grp(1, AnyDecimal)>>)] >>]

\* the rating loop.  handler(...) is called with one argument: a handler
\* that takes none raises TypeError, which the loop logs before it goes on
\* to the next pattern; the first other pattern that matches decides
\* min(float(x), 5.0)
RatingOf(x) == IF x > 5 * Hundredths THEN 5 * Hundredths ELSE x

FirstRating(patterns, text_lower, matching) ==
    IF matching = {} THEN NoRating
    ELSE RatingOf(ParseDecimal(LocalNormalizeArabic(
             Group(Search(patterns[Least(matching)].re, text_lower), text_lower, 1))).value)

RatingLoop(patterns, text_lower) ==
    FirstRating(patterns, text_lower,
                {k \in 1..Len(patterns) :
                   patterns[k].args = 1 /\ Search(patterns[k].re, text_lower).found})

Rating(text_lower, lang) ==
    IF lang \in DOMAIN RatingPatterns THEN RatingLoop(RatingPatterns[lang], text_lower)
    ELSE NoRating

\* keyword_map; <<>> stands for a key the entry does not have
KeywordMap ==
    { [key |-> <<"a", "c", "c", "e", "s", "s", "o", "r", "i", "e", "s">>,
        category |-> <<"A", "c", "c", "e", "s", "s", "o", "r", "i", "e", "s">>, subcategory |-> <<>>, color |-> <<>>],
      [key |-> <<"ALEF", "KAF", "SEEN", "SEEN", "WAW", "ALEF", "REH", "ALEF", "TEH">>,
        category |-> <<"A", "c", "c", "e", "s", "s", "o", "r", "i", "e", "s">>, subcategory |-> <<>>, color |-> <<>>],
      [key |-> <<"MEEM", "SEEN", "TEH", "LAM", "ZAIN", "MEEM", "ALEF", "TEH">>,
        category |-> <<"A", "c", "c", "e", "s", "s", "o", "r", "i", "e", "s">>, subcategory |-> <<>>, color |-> <<>>],
      [key |-> <<"HAH", "ALEF", "JEEM", "ALEF", "TEH", " ", "ALEF", "KAF", "SEEN", "SEEN", "WAW", "ALEF", "REH">>,
        category |-> <<"A", "c", "c", "e", "s", "s", "o", "r", "i", "e", "s">>, subcategory |-> <<>>, color |-> <<>>],
      [key |-> <<"c", "r", "a", "f", "t", " ", "i", "t", "e", "m">>,
        category |-> <<"A", "c", "c", "e", "s", "s", "o", "r", "i", "e", "s">>, subcategory |-> <<"C", "r", "a", "f", "t", " ", "I", "t", "e", "m">>, color |-> <<>>],
      [key |-> <<"AIN", "NOON", "SAD", "REH", " ", "HAH", "REH", "FEH", "YEH">>,
        category |-> <<"A", "c", "c", "e", "s", "s", "o", "r", "i", "e", "s">>, subcategory |-> <<"C", "r", "a", "f", "t", " ", "I", "t", "e", "m">>, color |-> <<>>],
      [key |-> <<"MEEM", "NOON", "TEH", "JEEM", " ", "YEH", "DAL", "WAW", "YEH">>,
        category |-> <<"A", "c", "c", "e", "s", "s", "o", "r", "i", "e", "s">>, subcategory |-> <<"C", "r", "a", "f", "t", " ", "I", "t", "e", "m">>, color |-> <<>>],
      [key |-> <<"c", "e", "r", "a", "m", "i", "c", "s", " ", "&", " ", "p", "o", "t", "t", "e", "r", "y">>,
        category |-> <<"C", "e", "r", "a", "m", "i", "c", "s", " ", "&", " ", "P", "o", "t", "t", "e", "r", "y">>, subcategory |-> <<>>, color |-> <<>>],
      [key |-> <<"p", "o", "t", "t", "e", "r", "y">>,
        category |-> <<"C", "e", "r", "a", "m", "i", "c", "s", " ", "&", " ", "P", "o", "t", "t", "e", "r", "y">>, subcategory |-> <<>>, color |-> <<>>],
      [key |-> <<"SEEN", "YEH", "REH", "ALEF", "MEEM", "YEH", "KAF", " ", "WAW", "FEH", "KHAH", "ALEF", "REH">>,
        category |-> <<"C", "e", "r", "a", "m", "i", "c", "s", " ", "&", " ", "P", "o", "t", "t", "e", "r", "y">>, subcategory |-> <<>>, color |-> <<>>],
      [key |-> <<"FEH", "KHAH", "ALEF", "REH">>,
        category |-> <<"C", "e", "r", "a", "m", "i", "c", "s", " ", "&", " ", "P", "o", "t", "t", "e", "r", "y">>, subcategory |-> <<>>, color |-> <<>>],
      [key |-> <<"JEEM", "REH", "TEH_MARBUTA">>,
        category |-> <<"C", "e", "r", "a", "m", "i", "c", "s", " ", "&", " ", "P", "o", "t", "t", "e", "r", "y">>, subcategory |-> <<>>, color |-> <<>>],
      [key |-> <<"TAH", "WAW", "ALEF", "JEEM", "NOON">>,
        category |-> <<"C", "e", "r", "a", "m", "i", "c", "s", " ", "&", " ", "P", "o", "t", "t", "e", "r", "y">>, subcategory |-> <<>>, color |-> <<>>],
      [key |-> <<"d", "r", "i", "n", "k", "w", "a", "r", "e">>,
        category |-> <<"C", "e", "r", "a", "m", "i", "c", "s", " ", "&", " ", "P", "o", "t", "t", "e", "r", "y">>, subcategory |-> <<"D", "r", "i", "n", "k", "w", "a", "r", "e">>, color |-> <<>>],
      [key |-> <<"ALEF_HAMZA_ABOVE", "WAW", "ALEF", "NOON", "YEH", " ", "SHEEN", "REH", "BEH">>,
        category |-> <<"C", "e", "r", "a", "m", "i", "c", "s", " ", "&", " ", "P", "o", "t", "t", "e", "r", "y">>, subcategory |-> <<"D", "r", "i", "n", "k", "w", "a", "r", "e">>, color |-> <<>>],
      [key |-> <<"KAF", "WAW", "BEH">>,
        category |-> <<"C", "e", "r", "a", "m", "i", "c", "s", " ", "&", " ", "P", "o", "t", "t", "e", "r", "y">>, subcategory |-> <<"D", "r", "i", "n", "k", "w", "a", "r", "e">>, color |-> <<>>],
      [key |-> <<"KAF", "WAW", "BEH", "ALEF", "YEH", "TEH_MARBUTA">>,
        category |-> <<"C", "e", "r", "a", "m", "i", "c", "s", " ", "&", " ", "P", "o", "t", "t", "e", "r", "y">>, subcategory |-> <<"D", "r", "i", "n", "k", "w", "a", "r", "e">>, color |-> <<>>],
      [key |-> <<"t", "a", "b", "l", "e", "w", "a", "r", "e">>,
        category |-> <<"C", "e", "r", "a", "m", "i", "c", "s", " ", "&", " ", "P", "o", "t", "t", "e", "r", "y">>, subcategory |-> <<"T", "a", "b", "l", "e", "w", "a", "r", "e">>, color |-> <<>>],
      [key |-> <<"ALEF_HAMZA_ABOVE", "WAW", "ALEF", "NOON", "YEH", " ", "MEEM", "ALEF", "YEH_HAMZA_ABOVE", "DAL", "TEH_MARBUTA">>,
        category |-> <<"C", "e", "r", "a", "m", "i", "c", "s", " ", "&", " ", "P", "o", "t", "t", "e", "r", "y">>, subcategory |-> <<"T", "a", "b", "l", "e", "w", "a", "r", "e">>, color |-> <<>>],
      [key |-> <<"SAD", "HAH", "WAW", "NOON">>,
        category |-> <<"C", "e", "r", "a", "m", "i", "c", "s", " ", "&", " ", "P", "o", "t", "t", "e", "r", "y">>, subcategory |-> <<"T", "a", "b", "l", "e", "w", "a", "r", "e">>, color |-> <<>>],
      [key |-> <<"c", "o", "o", "k", "i", "n", "g">>,
        category |-> <<"C", "e", "r", "a", "m", "i", "c", "s", " ", "&", " ", "P", "o", "t", "t", "e", "r", "y">>, subcategory |-> <<"C", "o", "o", "k", "i", "n", "g">>, color |-> <<>>],
      [key |-> <<"TAH", "HEH", "YEH">>,
        category |-> <<"C", "e", "r", "a", "m", "i", "c", "s", " ", "&", " ", "P", "o", "t", "t", "e", "r", "y">>, subcategory |-> <<"C", "o", "o", "k", "i", "n", "g">>, color |-> <<>>],
      [key |-> <<"ALEF_HAMZA_ABOVE", "DAL", "WAW", "ALEF", "TEH", " ", "TAH", "BEH", "KHAH">>,
        category |-> <<"C", "e", "r", "a", "m", "i", "c", "s", " ", "&", " ", "P", "o", "t", "t", "e", "r", "y">>, subcategory |-> <<"C", "o", "o", "k", "i", "n", "g">>, color |-> <<>>],
      [key |-> <<"h", "o", "m", "e", " ", "d", "e", "c", "o", "r">>,
        category |-> <<"C", "e", "r", "a", "m", "i", "c", "s", " ", "&", " ", "P", "o", "t", "t", "e", "r", "y">>, subcategory |-> <<"H", "o", "m", "e", " ", "D", "e", "c", "o", "r">>, color |-> <<>>],
      [key |-> <<"DAL", "YEH", "KAF", "WAW", "REH", " ", "MEEM", "NOON", "ZAIN", "LAM">>,
        category |-> <<"C", "e", "r", "a", "m", "i", "c", "s", " ", "&", " ", "P", "o", "t", "t", "e", "r", "y">>, subcategory |-> <<"H", "o", "m", "e", " ", "D", "e", "c", "o", "r">>, color |-> <<>>],
      [key |-> <<"ZAIN", "YEH", "NOON", "TEH_MARBUTA", " ", "BEH", "YEH", "TEH">>,
        category |-> <<"C", "e", "r", "a", "m", "i", "c", "s", " ", "&", " ", "P", "o", "t", "t", "e", "r", "y">>, subcategory |-> <<"H", "o", "m", "e", " ", "D", "e", "c", "o", "r">>, color |-> <<>>],
      [key |-> <<"g", "l", "a", "s", "s">>,
        category |-> <<"G", "l", "a", "s", "s">>, subcategory |-> <<>>, color |-> <<>>],
      [key |-> <<"ZAIN", "JEEM", "ALEF", "JEEM">>,
        category |-> <<"G", "l", "a", "s", "s">>, subcategory |-> <<>>, color |-> <<>>],
      [key |-> <<"QAF", "ZAIN", "ALEF", "ZAIN">>,
        category |-> <<"G", "l", "a", "s", "s">>, subcategory |-> <<>>, color |-> <<>>],
      [key |-> <<"l", "e", "a", "t", "h", "e", "r">>,
        category |-> <<"L", "e", "a", "t", "h", "e", "r">>, subcategory |-> <<>>, color |-> <<>>],
      [key |-> <<"JEEM", "LAM", "DAL">>,
        category |-> <<"L", "e", "a", "t", "h", "e", "r">>, subcategory |-> <<>>, color |-> <<>>],
      [key |-> <<"JEEM", "LAM", "DAL", " ", "TAH", "BEH", "YEH", "AIN", "YEH">>,
        category |-> <<"L", "e", "a", "t", "h", "e", "r">>, subcategory |-> <<>>, color |-> <<>>],
      [key |-> <<"m", "a", "r", "b", "l", "e">>,
        category |-> <<"M", "a", "r", "b", "l", "e">>, subcategory |-> <<>>, color |-> <<>>],
      [key |-> <<"REH", "KHAH", "ALEF", "MEEM">>,
        category |-> <<"M", "a", "r", "b", "l", "e">>, subcategory |-> <<>>, color |-> <<>>],
      [key |-> <<"w", "o", "o", "d">>,
        category |-> <<"W", "o", "o", "d">>, subcategory |-> <<>>, color |-> <<>>],
      [key |-> <<"KHAH", "SHEEN", "BEH">>,
        category |-> <<"W", "o", "o", "d">>, subcategory |-> <<>>, color |-> <<>>],
      [key |-> <<"AIN", "FEH", "SHEEN", " ", "KHAH", "SHEEN", "BEH">>,
        category |-> <<"W", "o", "o", "d">>, subcategory |-> <<>>, color |-> <<>>],
      [key |-> <<"y", "e", "l", "l", "o", "w">>,
        category |-> <<>>, subcategory |-> <<>>, color |-> <<"Y", "e", "l", "l", "o", "w">>],
      [key |-> <<"ALEF_HAMZA_ABOVE", "SAD", "FEH", "REH">>,
        category |-> <<>>, subcategory |-> <<>>, color |-> <<"Y", "e", "l", "l", "o", "w">>],
      [key |-> <<"SAD", "FEH", "REH", "ALEF">>,
        category |-> <<>>, subcategory |-> <<>>, color |-> <<"Y", "e", "l", "l", "o", "w">>],
      [key |-> <<"b", "l", "u", "e">>,
        category |-> <<>>, subcategory |-> <<>>, color |-> <<"B", "l", "u", "e">>],
      [key |-> <<"ALEF_HAMZA_ABOVE", "ZAIN", "REH", "QAF">>,
        category |-> <<>>, subcategory |-> <<>>, color |-> <<"B", "l", "u", "e">>],
      [key |-> <<"ZAIN", "REH", "QAF", "ALEF">>,
        category |-> <<>>, subcategory |-> <<>>, color |-> <<"B", "l", "u", "e">>],
      [key |-> <<"r", "e", "d">>,
        category |-> <<>>, subcategory |-> <<>>, color |-> <<"R", "e", "d">>],
      [key |-> <<"ALEF_HAMZA_ABOVE", "HAH", "MEEM", "REH">>,
        category |-> <<>>, subcategory |-> <<>>, color |-> <<"R", "e", "d">>],
      [key |-> <<"HAH", "MEEM", "REH", "ALEF">>,
        category |-> <<>>, subcategory |-> <<>>, color |-> <<"R", "e", "d">>] }

\* location_keywords
LocationKeywords ==
    { <<"ALEF", "LAM", "QAF", "ALEF", "HEH", "REH", "TEH_MARBUTA">>,
      <<"ALEF", "LAM", "ALEF_HAMZA_BELOW", "SEEN", "KAF", "NOON", "DAL", "REH", "YEH", "TEH_MARBUTA">>,
      <<"ALEF", "LAM", "JEEM", "YEH", "ZAIN", "TEH_MARBUTA">>,
      <<"ALEF", "LAM", "ALEF_HAMZA_ABOVE", "QAF", "SAD", "REH">>,
      <<"ALEF_HAMZA_ABOVE", "SEEN", "WAW", "ALEF", "NOON">> }

\* price_terms of _check_conflicting_entities
PriceTerms ==
    [ en |-> [cheap |-> {<<"c", "h", "e", "a", "p">>,
                  <<"l", "o", "w">>,
                  <<"a", "f", "f", "o", "r", "d", "a", "b", "l", "e">>,
                  <<"b", "u", "d", "g", "e", "t">>,
                  <<"i", "n", "e", "x", "p", "e", "n", "s", "i", "v", "e">>},
              expensive |-> {<<"e", "x", "p", "e", "n", "s", "i", "v", "e">>,
                  <<"h", "i", "g", "h">>,
                  <<"l", "u", "x", "u", "r", "y">>,
                  <<"p", "r", "e", "m", "i", "u", "m">>,
                  <<"c", "o", "s", "t", "l", "y">>}],
      ar |-> [cheap |-> {<<"REH", "KHAH", "YEH", "SAD">>,
                  <<"REH", "KHAH", "YEH", "SAD", "TEH_MARBUTA">>,
                  <<"REH", "KHAH", "YEH", "SAD", "YEH", "NOON">>,
                  <<"REH", "KHAH", "YEH", "SAD", "HEH">>,
                  <<"MEEM", "SHEEN", " ", "GHAIN", "ALEF", "LAM", "YEH", "TEH_MARBUTA">>},
              expensive |-> {<<"GHAIN", "ALEF", "LAM", "YEH">>,
                  <<"GHAIN", "ALEF", "LAM", "YEH", "TEH_MARBUTA">>,
                  <<"GHAIN", "ALEF", "LAM", "YEH", "NOON">>,
                  <<"GHAIN", "ALEF", "LAM", "YEH", "HEH">>,
                  <<"MEEM", "KAF", "LAM", "FEH">>,
                  <<"MEEM", "KAF", "LAM", "FEH", "TEH_MARBUTA">>,
                  <<"MEEM", "KAF", "LAM", "FEH", "YEH", "NOON">>}] ]

\* greeting_keywords
GreetingKeywords ==
    [ en |-> {<<"h", "e", "l", "l", "o">>,
              <<"h", "i">>,
              <<"h", "e", "y">>,
              <<"g", "r", "e", "e", "t", "i", "n", "g", "s">>},
      ar |-> {<<"MEEM", "REH", "HAH", "BEH", "ALEF">>,
              <<"MEEM", "REH", "HAH", "BEH", "AR_FATHATAN", "ALEF">>,
              <<"ALEF_HAMZA_ABOVE", "HEH", "LAM", "ALEF">>,
              <<"ALEF", "HEH", "LAM", "ALEF">>,
              <<"SEEN", "LAM", "ALEF", "MEEM">>,
              <<"ALEF", "ZAIN", "YEH", "KAF">>} ]

\* recommendation_keywords
RecommendationKeywords ==
    [ en |-> {<<"r", "e", "c", "o", "m", "m", "e", "n", "d">>,
              <<"s", "u", "g", "g", "e", "s", "t">>,
              <<"w", "h", "a", "t", " ", "s", "h", "o", "u", "l", "d", " ", "i">>,
              <<"b", "e", "s", "t">>},
      ar |-> {<<"YEH", "WAW", "SAD", "YEH">>,
              <<"ALEF", "QAF", "TEH", "REH", "HAH">>,
              <<"ALEF_HAMZA_ABOVE", "FEH", "DAD", "LAM">>,
              <<"NOON", "SAD", "HAH", "YEH", "NOON", "YEH">>,
              <<"ALEF_HAMZA_BELOW", "YEH", "HEH", " ", "ALEF", "LAM", "ALEF_HAMZA_ABOVE", "HAH", "SEEN", "NOON">>} ]

\* help_keywords
HelpKeywords ==
    [ en |-> {<<"h", "e", "l", "p">>,
              <<"h", "o", "w", " ", "t", "o">>,
              <<"s", "u", "p", "p", "o", "r", "t">>,
              <<"a", "s", "s", "i", "s", "t">>},
      ar |-> {<<"MEEM", "SEEN", "ALEF", "AIN", "DAL", "TEH_MARBUTA">>,
              <<"KAF", "YEH", "FEH">>,
              <<"DAL", "AIN", "MEEM">>,
              <<"SEEN", "ALEF", "AIN", "DAL", "NOON", "YEH">>,
              <<"ALEF_HAMZA_BELOW", "ZAIN", "ALEF", "YEH">>} ]

\* feedback_keywords
FeedbackKeywords ==
    [ en |-> {<<"f", "e", "e", "d", "b", "a", "c", "k">>,
              <<"r", "e", "v", "i", "e", "w">>,
              <<"r", "a", "t", "e">>,
              <<"o", "p", "i", "n", "i", "o", "n">>},
      ar |-> {<<"TEH", "AIN", "LAM", "YEH", "QAF">>,
              <<"MEEM", "REH", "ALEF", "JEEM", "AIN", "TEH_MARBUTA">>,
              <<"TEH", "QAF", "YEH", "YEH", "MEEM">>,
              <<"REH", "ALEF_HAMZA_ABOVE", "YEH">>,
              <<"QAF", "WAW", "LAM", "YEH", " ", "REH", "ALEF_HAMZA_ABOVE", "YEH", "KAF">>} ]

\* product_query_keywords
ProductQueryKeywords ==
    [ en |-> {<<"s", "h", "o", "w", " ", "m", "e">>,
              <<"i", " ", "w", "a", "n", "t">>,
              <<"f", "i", "n", "d">>,
              <<"g", "e", "t", " ", "m", "e">>,
              <<"l", "o", "o", "k", "i", "n", "g", " ", "f", "o", "r">>,
              <<"n", "e", "e", "d">>,
              <<"s", "e", "a", "r", "c", "h", " ", "f", "o", "r">>},
      ar |-> {<<"AIN", "ALEF", "YEH", "ZAIN">>,
              <<"ALEF_HAMZA_ABOVE", "REH", "YEH", "DAL">>,
              <<"ALEF_HAMZA_ABOVE", "ZAH", "HEH", "REH">>,
              <<"ALEF", "BEH", "HAH", "THEH">>,
              <<"HAH", "ALEF", "BEH", "BEH">>,
              <<"BEH", "DAL", "WAW", "REH", " ", "AIN", "LAM", "ALEF_MAKSURA">>,
              <<"MEEM", "HAH", "TEH", "ALEF", "JEEM">>,
              <<"LAM", "QAF", "AR_SHADDA", "YEH", "NOON", "YEH">>,
              <<"JEEM", "YEH", "BEH", "LAM", "YEH">>} ]

\* filter_keywords
FilterKeywords ==
    [ en |-> {<<"u", "n", "d", "e", "r">>,
              <<"b", "e", "l", "o", "w">>,
              <<"l", "e", "s", "s", " ", "t", "h", "a", "n">>,
              <<"m", "o", "r", "e", " ", "t", "h", "a", "n">>,
              <<"f", "i", "l", "t", "e", "r">>,
              <<"s", "h", "o", "w", " ", "m", "e">>,
              <<"i", "n">>,
              <<"f", "r", "o", "m">>,
              <<"t", "o">>},
      ar |-> {<<"TEH", "HAH", "TEH">>,
              <<"ALEF_HAMZA_ABOVE", "QAF", "LAM", " ", "MEEM", "NOON">>,
              <<"ALEF_HAMZA_ABOVE", "KAF", "THEH", "REH", " ", "MEEM", "NOON">>,
              <<"FEH", "LAM", "TEH", "REH">>,
              <<"ALEF_HAMZA_ABOVE", "ZAH", "HEH", "REH">>,
              <<"FEH", "YEH">>,
              <<"MEEM", "NOON">>,
              <<"ALEF_HAMZA_BELOW", "LAM", "ALEF_MAKSURA">>,
              <<"BEH", "ALEF_HAMZA_ABOVE", "QAF", "LAM">>,
              <<"BEH", "ALEF_HAMZA_ABOVE", "KAF", "TEH", "REH">>} ]

\* price_query_keywords
PriceQueryKeywords ==
    [ en |-> {<<"p", "r", "i", "c", "e">>,
              <<"c", "o", "s", "t">>,
              <<"e", "x", "p", "e", "n", "s", "i", "v", "e">>,
              <<"c", "h", "e", "a", "p">>,
              <<"b", "u", "d", "g", "e", "t">>,
              <<"a", "f", "f", "o", "r", "d", "a", "b", "l", "e">>},
      ar |-> {<<"SEEN", "AIN", "REH">>,
              <<"TEH", "KAF", "LAM", "FEH", "TEH_MARBUTA">>,
              <<"GHAIN", "ALEF", "LAM", "YEH">>,
              <<"REH", "KHAH", "YEH", "SAD">>,
              <<"MEEM", "YEH", "ZAIN", "ALEF", "NOON", "YEH", "TEH_MARBUTA">>,
              <<"BEH", "KAF", "ALEF", "MEEM">>,
              <<"ALEF", "LAM", "SEEN", "AIN", "REH", " ", "ALEF_HAMZA_BELOW", "YEH", "HEH">>} ]

\* categories, subcategory_map, artisans, colors, sizes and weights as the
\* extractor prepares them from the collections
DbCategories(lang) ==
    { Strip(IF lang = "ar" THEN LocalNormalizeArabic(Lower(c)) ELSE Lower(c)) :
        c \in Db.categories } \ {<<>>}

DbSubcategories(lang) ==
    { << IF lang = "ar" THEN LocalNormalizeArabic(Lower(s[1])) ELSE Lower(s[1]),
         IF lang = "ar" THEN LocalNormalizeArabic(Lower(s[2])) ELSE Lower(s[2]) >> :
        s \in Db.subcategories }

DbArtisans == { LocalNormalizeArabic(Lower(a)) : a \in Db.artisans }
DbColors == { LocalNormalizeArabic(Lower(Strip(c))) : c \in Db.colors }
DbSizes == { LocalNormalizeArabic(Lower(Strip(s))) : s \in Db.sizes }

\* words
LongWords(ws) ==
    { LocalNormalizeArabic(ws[k]) : k \in {j \in 1..Len(ws) : Len(ws[j]) >= 2} }

Words(text_lower) == LongWords(Split(text_lower))

\* list(set(price_range)): equal prices are one element, and two prices come
\* in the order of their slots in the table of 8 of a small set.  A price
\* hashes to itself, inf to 314159; the second price added moves on from a
\* taken slot i to (5 * i + 1 + perturb) % 8, perturb shifted right by 5 each time
RECURSIVE SetSlot(_, _, _)
SetSlot(i, perturb, taken) ==
    IF i # taken THEN i
    ELSE SetSlot((5 * i + 1 + (perturb \div 32)) % 8, perturb \div 32, taken)

HashOf(x) == IF x = Infinity THEN 314159 ELSE x

DedupPriceRange(pr) ==
    IF Len(pr) # 2 THEN pr
    ELSE IF pr[1] = pr[2] THEN <<pr[1]>>
    ELSE IF HashOf(pr[1]) % 8 < SetSlot(HashOf(pr[2]) % 8, HashOf(pr[2]), HashOf(pr[1]) % 8)
         THEN pr
         ELSE <<pr[2], pr[1]>>

\* _extract_entities(text, lang).  db tells how far the database answers:
\* "up", "down" (the first query raises: the entities are returned as
\* initialized) or "lost" (the category query raises: what was extracted
\* until then is returned, without the de-duplication)
ExtractEntities(text, lang, db) ==
    LET Early(text_lower) ==
            [EmptyEntities EXCEPT
               !.product_titles = ProductTitles(text_lower),
               !.price_range = PriceRange(text_lower, lang),
               !.weights = Weights(text_lower, lang),
               !.rating = Rating(text_lower, lang)]
        Late(early, words, hits) ==
            [early EXCEPT
               !.price_range = DedupPriceRange(early.price_range),
               !.categories =
                   { Capitalize(k.category) : k \in {h \in hits : h.category # <<>>} }
                   \cup { Capitalize(c) : c \in {d \in DbCategories(lang) :
                             \E w \in words : FuzzRatio(w, d) >= 70} },
               !.subcategories =
                   { <<Capitalize(k.subcategory), Capitalize(k.category)>> :
                        k \in {h \in hits : h.subcategory # <<>>} }
                   \cup { <<Capitalize(s[1]), Capitalize(s[2])>> :
                             s \in {d \in DbSubcategories(lang) :
                                       \E w \in words : FuzzRatio(w, d[1]) >= 70} },
               !.colors =
                   { Capitalize(k.color) : k \in {h \in hits : h.color # <<>>} }
                   \cup { Capitalize(c) : c \in {d \in DbColors :
                             \E w \in words : FuzzRatio(w, d) >= 85} },
               !.locations =
                   { Capitalize(loc) : loc \in {l \in LocationKeywords :
                        \E w \in words : FuzzRatio(w, LocalNormalizeArabic(l)) >= 80} },
               !.artisans =
                   { Capitalize(a) : a \in {d \in DbArtisans :
                        \E w \in words : FuzzRatio(w, d) >= 80} },
               !.size =
                   { Capitalize(s) : s \in {d \in DbSizes :
                        \E w \in words : FuzzRatio(w, LocalNormalizeArabic(Lower(d))) >= 80} },
               !.weights =
                   early.weights
                   \cup { WeightWord(v) : v \in {d \in Db.weights :
                            \E w \in words : FuzzRatio(w, LocalNormalizeArabic(Lower(d))) >= 80} }]
        WithWords(text_lower, words) ==
            Late(Early(text_lower), words, {k \in KeywordMap : k.key \in words})
        From(text_lower) ==
            IF db = "lost" THEN Early(text_lower)
            ELSE WithWords(text_lower, Words(text_lower))
    IN IF db = "down" THEN EmptyEntities
       ELSE From(TextLower(text, lang))

\* _extract_price_range: the patterns.  A pattern is the words before the
\* bound, (\d*\.?\d+), for two bounds a joining word and a second number,
\* an optional currency, and (?!\s*(kg|g|kilogram|gram)), whose group never
\* takes part in a match
PriceDecimal == Cat(<<Star(Chars(Digits)), Opt(Lit(<<".">>)), Plus(Chars(Digits))>>)

PriceTail(lang) ==
    IF lang = "ar"
    THEN <<Spaces, Opt(Alt(<<Lit(<<"JEEM", "NOON", "YEH", "HEH">>), Lit(<<"JEEM">>)>>)),
           NotAhead(Cat(<<Spaces, Alt(<<Lit(<<"KAF", "JEEM", "MEEM">>), Lit(<<"JEEM", "MEEM">>),
                                        Lit(<<"KAF", "YEH", "LAM", "WAW", "JEEM", "REH", "ALEF", "MEEM">>),
                                        Lit(<<"JEEM", "REH", "ALEF", "MEEM">>)>>)>>))>>
    ELSE <<Spaces, Opt(Alt(<<Lit(<<"e", "g", "p">>),
                             Cat(<<Lit(<<"p", "o", "u", "n", "d">>), Opt(Lit(<<"s">>))>>),
                             Lit(<<"l", "e">>)>>)),
           NotAhead(Cat(<<Spaces, Alt(<<Lit(<<"k", "g">>), Lit(<<"g">>),
                                        Lit(<<"k", "i", "l", "o", "g", "r", "a", "m">>),
                                        Lit(<<"g", "r", "a", "m">>)>>)>>))>>

\* a pattern of one bound after the words before
OneBound(kind, before, lang) ==
    [kind |-> kind, re |-> Cat(before \o <<Spaces1, Grp(1, PriceDecimal)>> \o PriceTail(lang))]

\* a pattern of two bounds joined by one of the words joins
TwoBounds(before, joins, lang) ==
    [kind |-> "pair",
     re |-> Cat(<<before, Spaces1, Grp(1, PriceDecimal), Spaces, Alt(joins), Spaces1,
                  Grp(2, PriceDecimal)>> \o PriceTail(lang))]

\* en_patterns and ar_patterns
ExtractPriceRangePatterns(lang) ==
    IF lang = "ar"
    THEN << OneBound("upto", <<Lit(<<"ALEF_HAMZA_ABOVE", "QAF", "LAM">>), Spaces1, Lit(<<"MEEM", "NOON">>)>>, "ar"),
            OneBound("upto", <<Lit(<<"TEH", "HAH", "TEH">>)>>, "ar"),
            OneBound("from", <<Lit(<<"ALEF_HAMZA_ABOVE", "KAF", "THEH", "REH">>), Spaces1, Lit(<<"MEEM", "NOON">>)>>, "ar"),
            OneBound("from", <<Lit(<<"FEH", "WAW", "QAF">>)>>, "ar"),
            TwoBounds(Lit(<<"BEH", "YEH", "NOON">>),
                      <<Lit(<<"WAW">>), Lit(<<"ALEF_HAMZA_BELOW", "LAM", "ALEF_MAKSURA">>)>>, "ar"),
            TwoBounds(Lit(<<"MEEM", "NOON">>),
                      <<Lit(<<"ALEF_HAMZA_BELOW", "LAM", "ALEF_MAKSURA">>),
                        Lit(<<"HAH", "TEH", "ALEF_MAKSURA">>)>>, "ar"),
            [kind |-> "cheap", re |-> Lit(<<"REH", "KHAH", "YEH", "SAD">>)],
            [kind |-> "expensive", re |-> Lit(<<"GHAIN", "ALEF", "LAM", "YEH">>)] >>
    ELSE << OneBound("upto", <<Lit(<<"u", "n", "d", "e", "r">>)>>, "en"),
            OneBound("upto", <<Lit(<<"l", "e", "s", "s">>), Spaces1, Lit(<<"t", "h", "a", "n">>)>>, "en"),
            OneBound("upto", <<Lit(<<"b", "e", "l", "o", "w">>)>>, "en"),
            OneBound("from", <<Lit(<<"o", "v", "e", "r">>)>>, "en"),
            OneBound("from", <<Lit(<<"m", "o", "r", "e">>), Spaces1, Lit(<<"t", "h", "a", "n">>)>>, "en"),
            OneBound("from", <<Lit(<<"a", "b", "o", "v", "e">>)>>, "en"),
            TwoBounds(Lit(<<"b", "e", "t", "w", "e", "e", "n">>),
                      <<Lit(<<"a", "n", "d">>), Lit(<<"t", "o">>)>>, "en"),
            TwoBounds(Lit(<<"f", "r", "o", "m">>),
                      <<Lit(<<"t", "o">>), Lit(<<"u", "n", "t", "i", "l">>)>>, "en"),
            [kind |-> "cheap", re |-> Lit(<<"c", "h", "e", "a", "p">>)],
            [kind |-> "expensive", re |-> Lit(<<"e", "x", "p", "e", "n", "s", "i", "v", "e">>)] >>

\* what the handler of a pattern makes of the match m, in hundredths; the
\* bounds of a pair are swapped when inverted
HandledPrice(kind, m, t) ==
    LET x == ParseDecimal(Group(m, t, 1)).value
        y == ParseDecimal(Group(m, t, 2)).value
    IN CASE kind = "cheap" -> <<0, 200 * Hundredths>>
         [] kind = "expensive" -> <<500 * Hundredths, Infinity>>
         [] kind = "upto" -> <<0, x>>
         [] kind = "from" -> <<x, Infinity>>
         [] kind = "pair" -> IF x > y THEN <<y, x>> ELSE <<x, y>>

\* the loop of _extract_price_range: the first pattern that matches decides;
\* <<>> is None
FirstPriceRange(patterns, t, matching) ==
    IF matching = {} THEN <<>>
    ELSE HandledPrice(patterns[Least(matching)].kind,
                      Search(patterns[Least(matching)].re, t), t)

\* _extract_price_range(text, lang)
ExtractPriceRange(text, lang) ==
    LET Loop(patterns, t) ==
            FirstPriceRange(patterns, t,
                            {k \in 1..Len(patterns) : Search(patterns[k].re, t).found})
    IN Loop(ExtractPriceRangePatterns(lang), Lower(TranslateDigits(text)))

\* the error a database that is "down" or "lost" raises inside the try of
\* _extract_entities
ExtractionError(db) == IF db = "up" THEN "None" ELSE "PyMongoError"

\* a call of _extract_entities without its except clause: the error leaves
\* the function
TryExtractEntitiesUncaught(text, lang, db) ==
    [raised |-> ExtractionError(db), entities |-> ExtractEntities(text, lang, db)]

\* a call of _extract_entities as its caller sees it: the try spans the body,
\* "except Exception" logs the error, and "return entities" follows it
TryExtractEntities(text, lang, db) ==
    [raised |-> "None", entities |-> ExtractEntities(text, lang, db)]

----------------------------------------------------------------------------
(* ChatbotService: the keyword classifier and the conflict checker          *)

\* a dict of entities, or the None (or {}) that "not entities" takes for none
Some(e) == [present |-> TRUE, e |-> e]
NoEntities == [present |-> FALSE, e |-> EmptyEntities]

\* any(kw in text_lower for kw in keywords.get(lang, []))
AnyKeyword(keywords, lang, text_lower) ==
    /\ lang \in DOMAIN keywords
    /\ \E kw \in keywords[lang] : Contains(text_lower, kw)

\* _classify_intent(text, lang): intent, confidence and entities
ClassifyIntent(text, lang, db) ==
    LET Decide(text_lower, entities) ==
            LET has_category == entities.categories # {} \/ entities.subcategories # {}
                has_price == Len(entities.price_range) = 2
                has_rating == entities.rating # NoRating
                has_location == entities.locations # {}
                has_product_title == entities.product_titles # {}
                has_artisan == entities.artisans # {}
                has_color == entities.colors # {}
                has_size == entities.size # {}
                has_weight == entities.weights # {}
                result(intent, confidence) ==
                    [intent |-> intent, confidence |-> confidence,
                     entities |-> Some(entities)]
            IN IF AnyKeyword(GreetingKeywords, lang, text_lower)
               THEN result("greeting", (9 * Scale) \div 10)
               ELSE IF AnyKeyword(RecommendationKeywords, lang, text_lower)
               THEN result("recommendation", (85 * Scale) \div 100)
               ELSE IF AnyKeyword(HelpKeywords, lang, text_lower)
               THEN result("help", (85 * Scale) \div 100)
               ELSE IF AnyKeyword(FeedbackKeywords, lang, text_lower)
               THEN result("feedback", (85 * Scale) \div 100)
               ELSE IF /\ has_category /\ ~has_product_title
                       /\ AnyKeyword(ProductQueryKeywords, lang, text_lower)
               THEN result("category_query", (9 * Scale) \div 10)
               ELSE IF /\ \/ has_price \/ has_color \/ has_size \/ has_weight
                          \/ has_rating \/ has_location \/ has_artisan
                       /\ AnyKeyword(FilterKeywords, lang, text_lower)
               THEN result("filter", (9 * Scale) \div 10)
               ELSE IF has_product_title /\ AnyKeyword(ProductQueryKeywords, lang, text_lower)
               THEN result("product_query", (9 * Scale) \div 10)
               ELSE IF AnyKeyword(PriceQueryKeywords, lang, text_lower)
               THEN result("price_query", (8 * Scale) \div 10)
               ELSE IF has_color \/ has_category
               THEN result("filter", (7 * Scale) \div 10)
               ELSE result("clarification", (3 * Scale) \div 10)
    IN Decide(TextLower(text, lang), ExtractEntities(text, lang, db))

\* a response: what the status and the response text are, the fields
\* response.update sets, and, as a ghost, the handler that produced it
Response(status, reason, confidence, intent, lang, entities, needs_clarification, handler) ==
    [status |-> status, reason |-> reason, confidence |-> confidence,
     intent |-> intent, lang |-> lang, entities |-> entities,
     needs_clarification |-> needs_clarification, handler |-> handler]

\* the None a function returns for "no response"
NoResponse == Response("None", "None", 0, "None", "None", NoEntities, FALSE, "None")

\* self.context.get(key, "")
ContextGet(ctx, key) == IF key \in DOMAIN ctx THEN ctx[key] ELSE <<>>

\* rating < 0 or rating > 5
RatingOutOfRange(rating) ==
    rating # NoRating /\ (rating < 0 \/ rating > 5 * Hundredths)

\* has_cheap and has_expensive
HasConflictingPriceTerms(original_message, lang) ==
    /\ \E term \in PriceTerms[lang].cheap : Contains(Lower(original_message), term)
    /\ \E term \in PriceTerms[lang].expensive : Contains(Lower(original_message), term)

\* the first check of _check_conflicting_entities: min_price > max_price
InvertedPriceRange(entities) ==
    Len(entities.price_range) = 2 /\ entities.price_range[1] > entities.price_range[2]

\* a conflict checker without the price range check
CheckConflictingEntitiesNoRange(entities, lang, ctx) ==
    LET clarify(reason) ==
            Response("clarify", reason, 0, "clarify", lang, Some(entities), TRUE, "None")
    IN IF lang \notin DOMAIN PriceTerms THEN NoResponse
       ELSE IF HasConflictingPriceTerms(ContextGet(ctx, "original_message"), lang)
       THEN clarify("conflicting_price")
       ELSE IF RatingOutOfRange(entities.rating) THEN clarify("invalid_rating")
       ELSE NoResponse

\* _check_conflicting_entities(entities, lang), reading self.context (ctx).
\* A language without responses or price terms raises KeyError, which the
\* function answers with None
CheckConflictingEntities(entities, lang, ctx) ==
    LET clarify(reason) ==
            Response("clarify", reason, 0, "clarify", lang, Some(entities), TRUE, "None")
    IN IF lang \notin DOMAIN PriceTerms THEN NoResponse
       ELSE IF InvertedPriceRange(entities) THEN clarify("invalid_price_range")
       ELSE IF HasConflictingPriceTerms(ContextGet(ctx, "original_message"), lang)
       THEN clarify("conflicting_price")
       ELSE IF RatingOutOfRange(entities.rating) THEN clarify("invalid_rating")
       ELSE NoResponse

----------------------------------------------------------------------------
(* ChatbotService.process_message                                           *)

\* _handle_error(error, lang)
HandleError == Response("error", "error", 0, "error", "None", NoEntities, FALSE, "None")

\* the preprocessing of process_message: the message that is classified and
\* stored as last_message
ProcessedMessage(message, lang) ==
    LET is_mixed ==
            \/ lang = "en" /\ \E k \in 1..Len(message) : message[k] \in ArabicChars
            \/ lang = "ar" /\ \E k \in 1..Len(message) : message[k] \in AsciiLetters
        split == IF is_mixed \/ lang = "ar"
                 THEN SplitMixedScriptTokens(ReplaceTransliteratedWords(message))
                 ELSE message
    IN PreprocessText(split, lang)[1]

\* the handler process_message routes an intent to
HandlerOf(intent) ==
    CASE intent = "product_query" -> "_handle_product_query"
      [] intent = "category_query" -> "_handle_category_query"
      [] intent = "filter" -> "_handle_filter"
      [] intent = "greeting" -> "_handle_greeting"
      [] intent = "recommendation" -> "_handle_recommendation"
      [] intent = "help" -> "_handle_help"
      [] intent = "feedback" -> "_handle_feedback"
      [] intent = "price_query" -> "_handle_price_query"
      [] OTHER -> "None"

\* whether a call binds to a function with the given parameters (none with
\* a default): positional arguments first, then keywords
CallBinds(parameters, positional, keywords) ==
    /\ positional + Cardinality(keywords) = Len(parameters)
    /\ keywords \subseteq {parameters[k] : k \in (positional + 1)..Len(parameters)}

\* def _format_suggestions(self, params)
FormatSuggestionsParameters == <<"params">>

\* the handlers that query the catalog
RetrievalHandlers ==
    {"_handle_product_query", "_handle_category_query", "_handle_filter",
     "_handle_price_query", "_safe_faiss_search"}

\* the status of the response after the handler ran.  outcome is what the
\* catalog or the recommendation service gave the handler: "products",
\* "empty" or "raises".  _handle_help and _handle_feedback call
\* _format_suggestions with keywords it does not take and end in
\* _handle_error; so does _handle_price_query while it builds either of its
\* answers (lines 2454 and 2464), inside the try whose except clause returns
\* _handle_error, as it does when the catalog raises
HandlerStatus(intent, outcome) ==
    CASE intent \in {"product_query", "category_query", "filter"} ->
             IF outcome = "products" THEN "success" ELSE "no_results"
      [] intent = "price_query" ->
             IF CallBinds(FormatSuggestionsParameters, 1, {"intent", "entities"})
             THEN IF outcome = "products" THEN "success"
                  ELSE IF outcome = "empty" THEN "no_results" ELSE "error"
             ELSE "error"
      [] intent = "greeting" -> "success"
      [] intent = "recommendation" -> IF outcome = "raises" THEN "error" ELSE "success"
      [] intent \in {"help", "feedback"} -> "error"
      [] OTHER -> "clarify"

\* the clarification test of process_message
NeedsClarification(intent, confidence, entities) ==
    /\ intent \notin {"greeting", "help"}
    /\ 2 * confidence < Scale
    /\ entities.categories = {}
    /\ entities.price_range = <<>>
    /\ entities.product_titles = {}
    /\ entities.rating \in {NoRating, 0}
    /\ entities.colors = {}

\* the intent, confidence and entities process_message goes on with: those
\* handed to it, or, when one of the two is missing, those of the classifier
Classified(message, lang, intent, entities, db) ==
    IF intent = "None" \/ ~entities.present
    THEN ClassifyIntent(message, lang, db)
    ELSE [intent |-> intent, confidence |-> (9 * Scale) \div 10, entities |-> entities]

\* process_message after the context was written: message is the
\* preprocessed message, ctx the context as it is when the conflict checker
\* reads it
ProcessClassified(message, lang, intent, entities, ctx, db, outcome) ==
    LET After(c, conflict_response) ==
            IF conflict_response # NoResponse THEN conflict_response
            ELSE IF NeedsClarification(c.intent, c.confidence, c.entities.e)
            THEN Response("clarify", "clarify", c.confidence, c.intent, lang, c.entities,
                          TRUE, "None")
            ELSE Response(HandlerStatus(c.intent, outcome), "None", c.confidence,
                          c.intent, lang, c.entities, FALSE, HandlerOf(c.intent))
        With(c) == After(c, CheckConflictingEntities(c.entities.e, lang, ctx))
    IN With(Classified(message, lang, intent, entities, db))

\* the answer of _handle_error when its own try fails
HandleErrorFallback ==
    Response("error", "error_handler", 0, "error", "None", NoEntities, FALSE, "None")

\* the error raised inside the try of process_message before the context
\* is written: ValidationError for a blank message, LanguageError when the
\* preprocessing raises (fails is "preprocess" or "preprocess+format")
ProcessMessageError(message, fails) ==
    IF Strip(message) = <<>> THEN "ValidationError"
    ELSE IF fails # "none" THEN "LanguageError"
    ELSE "None"

\* self.context after lines 1485-1486
WrittenContext(message, lang) ==
    [last_message |-> ProcessedMessage(message, lang), original_message |-> message]

\* process_message without its except clauses: the error leaves the function
ProcessMessageUncaught(message, lang, intent, entities, ctx, db, outcome, fails) ==
    IF ProcessMessageError(message, fails) # "None"
    THEN [raised |-> ProcessMessageError(message, fails), response |-> NoResponse,
          context |-> ctx]
    ELSE [raised |-> "None",
          response |-> ProcessClassified(ProcessedMessage(message, lang), lang, intent,
                                         entities, WrittenContext(message, lang), db, outcome),
          context |-> WrittenContext(message, lang)]

\* process_message(message, lang, intent, entities) as its caller sees it:
\* the response, and self.context after the call.  An error of the try is
\* answered by _handle_error, whose own failure ("preprocess+format") is
\* answered by its fallback
ProcessMessage(message, lang, intent, entities, ctx, db, outcome, fails) ==
    IF ProcessMessageError(message, fails) # "None"
    THEN [raised |-> "None",
          response |-> IF fails = "preprocess+format" THEN HandleErrorFallback
                       ELSE HandleError,
          context |-> ctx]
    ELSE [raised |-> "None",
          response |-> ProcessClassified(ProcessedMessage(message, lang), lang, intent,
                                         entities, WrittenContext(message, lang), db, outcome),
          context |-> WrittenContext(message, lang)]

----------------------------------------------------------------------------
(* The intent phrase catalog *)

\* the intents in the order of the catalog literal (dict insertion order)
IntentOrder ==
    <<"greeting", "recommendation", "help", "feedback", "filter",
      "product_query", "price_query", "category_query", "next_page">>

Intents == {IntentOrder[k] : k \in 1..Len(IntentOrder)}

Variants == {"en", "ar", "mixed"}

\* _initialize_intent_phrases: intent -> variant -> number of exemplar phrases
InitializeIntentPhrases ==
    [i \in Intents |->
        CASE i = "greeting"       -> [en |-> 29, ar |-> 30, mixed |-> 16]
          [] i = "recommendation" -> [en |-> 13, ar |-> 15, mixed |-> 7]
          [] i = "help"           -> [en |-> 33, ar |-> 37, mixed |-> 14]
          [] i = "feedback"       -> [en |-> 37, ar |-> 37, mixed |-> 15]
          [] i = "filter"         -> [en |-> 37, ar |-> 49, mixed |-> 14]
          [] i = "product_query"  -> [en |-> 29, ar |-> 40, mixed |-> 14]
          [] i = "price_query"    -> [en |-> 33, ar |-> 40, mixed |-> 14]
          [] i = "category_query" -> [en |-> 31, ar |-> 35, mixed |-> 14]
          [] OTHER                -> [en |-> 25, ar |-> 26, mixed |-> 15]]

\* [p for lang_phrases in phrases.values() for p in lang_phrases]: its length
FlattenedCount(phrases) == phrases.en + phrases.ar + phrases.mixed

\* one entry of phrase_embeddings: the phrase list and the parallel embeddings
EmbeddingEntry(i, phrases) ==
    [intent |-> i, phrases |-> FlattenedCount(phrases), embeddings |-> FlattenedCount(phrases)]

\* _precompute_embeddings when no encode call fails
PrecomputeEmbeddings(catalog) ==
    <<>> \o [k \in 1..Len(IntentOrder) |->
                EmbeddingEntry(IntentOrder[k], catalog[IntentOrder[k]])]

----------------------------------------------------------------------------
(* The utterances the model classifies.  The embedding model and the fuzzy *)
(* matcher are external: an utterance carries what they answer for it.     *)
(*   simVariants, simIntent, sim: the largest cosine similarity of the     *)
(*     utterance to the phrases of simIntent in those variants; base: its  *)
(*     similarity to every other phrase list;                              *)
(*   fzIntent, fzScore: the best fuzz.ratio (percent) over the phrases of  *)
(*     fzIntent in the request language; 0 for the other intents.          *)
(***************************************************************************)

Utterances ==
    { \* 'hi', an en phrase of greeting
      [text |-> <<"h", "i">>, lang |-> "en",
       simVariants |-> {"en"}, simIntent |-> "greeting", sim |-> 10000, base |-> 0,
       fzIntent |-> "greeting", fzScore |-> 100],
      \* an Arabic greeting without a space
      [text |-> <<"MEEM", "REH", "HAH", "BEH", "ALEF">>, lang |-> "ar",
       simVariants |-> {"ar"}, simIntent |-> "greeting", sim |-> 9000, base |-> 0,
       fzIntent |-> "greeting", fzScore |-> 100],
      \* 'hi <Arabic greeting>', close to a mixed phrase of greeting
      [text |-> <<"h", "i", " ", "MEEM", "REH", "HAH", "BEH", "ALEF">>, lang |-> "en",
       simVariants |-> {"mixed"}, simIntent |-> "greeting", sim |-> 9600, base |-> 0,
       fzIntent |-> "greeting", fzScore |-> 40],
      \* an English utterance far from every phrase, a near miss of a help phrase
      [text |-> <<"h", "a", "n", "t">>, lang |-> "en",
       simVariants |-> {"en"}, simIntent |-> "filter", sim |-> 2000, base |-> 0,
       fzIntent |-> "help", fzScore |-> 70],
      \* two Arabic words with a space between them, an ar phrase of help
      [text |-> <<"AIN", "ALEF", "YEH", "ZAIN", " ", "MEEM", "SEEN", "ALEF", "AIN", "DAL", "TEH_MARBUTA">>,
       lang |-> "ar",
       simVariants |-> {"ar"}, simIntent |-> "help", sim |-> 8000, base |-> 0,
       fzIntent |-> "help", fzScore |-> 100],
      \* an utterance with no positive similarity to any phrase
      [text |-> <<"?", "!">>, lang |-> "en",
       simVariants |-> {"en"}, simIntent |-> "help", sim |-> 0, base |-> -100,
       fzIntent |-> "help", fzScore |-> 0],
      \* an English utterance far from everything
      [text |-> <<"z", "z", "?">>, lang |-> "en",
       simVariants |-> {"en"}, simIntent |-> "next_page", sim |-> 1000, base |-> -200,
       fzIntent |-> "next_page", fzScore |-> 20] }

\* the largest cosine similarity of u to the phrases of intent i in variant p
Sim(u, p, i) == IF i = u.simIntent /\ p \in u.simVariants THEN u.sim ELSE u.base

----------------------------------------------------------------------------
(* EmbeddingService: the context window *)

\* a deque that drops the newest entry when full
DequeAppendKeepOldest(dq, e) ==
    IF Len(dq) < ContextWindowMaxLen THEN Append(dq, e) ELSE dq

\* deque.append on a deque(maxlen=5)
DequeAppend(dq, e) ==
    IF Len(dq) < ContextWindowMaxLen THEN Append(dq, e) ELSE Append(Tail(dq), e)

\* sum(1 for _, stored_intent, _ in self.context_window if stored_intent == intent)
IntentCount(cw, i) == Cardinality({k \in 1..Len(cw) : cw[k].intent = i})

\* _get_context_boost, in tenths: 1.0 + 0.1 * intent_count
GetContextBoost(cw, i) ==
    IF Len(cw) = 0 THEN 10
    ELSE IF IntentCount(cw, i) > 0 THEN 10 + IntentCount(cw, i) ELSE 10

\* _predict_from_context: the first intent of the window with the largest
\* count, if that count is at least 2; "None" otherwise
PredictFromContext(cw) ==
    IF Len(cw) = 0 THEN "None"
    ELSE LET best == CHOOSE k \in 1..Len(cw) :
                        /\ \A j \in 1..Len(cw) :
                              IntentCount(cw, cw[j].intent) <= IntentCount(cw, cw[k].intent)
                        /\ \A j \in 1..(k - 1) :
                              IntentCount(cw, cw[j].intent) < IntentCount(cw, cw[k].intent)
         IN IF IntentCount(cw, cw[best].intent) >= 2 THEN cw[best].intent ELSE "None"

----------------------------------------------------------------------------
(* EmbeddingService.detect_intent *)

\* patterns_to_try
PatternsToTry(text) ==
    LET has_english == \E k \in 1..Len(text) : IsAscii(text[k])
        has_arabic == \E k \in 1..Len(text) : InArabicBlock(text[k])
        is_mixed == has_english /\ has_arabic
    IN IF is_mixed THEN <<"ar", "en", "mixed">>
       ELSE IF has_arabic THEN <<"ar">> ELSE <<"en">>

\* max_score of one (pattern_type, intent) pair after the two boosts
BoostedScore(u, p, i, cw) ==
    LET max_score == Sim(u, p, i)
        mixed == IF p = "mixed" THEN (max_score * 105) \div 100 ELSE max_score
    IN IF Len(cw) > 0 THEN (mixed * GetContextBoost(cw, i)) \div 10 ELSE mixed

\* the inner loop over self.phrase_embeddings.items().  best is replaced
\* whenever an entry scores more than it: the loop ends with the first of
\* the entries with the largest score, if that score is more than best had
IntentLoop(u, p, index, catalog, cw, best) ==
    LET score(k) == BoostedScore(u, p, index[k].intent, cw)
        better == {k \in 1..Len(index) :
                     p \in DOMAIN catalog[index[k].intent] /\ score(k) > best.score}
        top == Least({k \in better : \A j \in better : score(j) <= score(k)})
    IN IF better = {} THEN best
       ELSE [intent |-> index[top].intent, score |-> score(top)]

\* the outer loop over patterns_to_try, from pattern k on
RECURSIVE PatternLoop(_, _, _, _, _, _, _)
PatternLoop(u, patterns, index, catalog, cw, k, best) ==
    IF k > Len(patterns) THEN best
    ELSE PatternLoop(u, patterns, index, catalog, cw, k + 1,
                     IntentLoop(u, patterns[k], index, catalog, cw, best))

\* the embedding-similarity stage: best_intent ("None" for None), best_score
EmbeddingStage(u, index, catalog, cw) ==
    PatternLoop(u, PatternsToTry(u.text), index, catalog, cw, 1,
                [intent |-> "None", score |-> 0])

\* _fuzzy_match_intent: the loop over the catalog, scores in 1/Scale; best
\* is replaced whenever an intent scores more than it
FuzzyLoop(u, lang, catalog, best) ==
    LET score(k) == IF IntentOrder[k] = u.fzIntent THEN u.fzScore * 100 ELSE 0
        better == {k \in 1..Len(IntentOrder) :
                     lang \in DOMAIN catalog[IntentOrder[k]] /\ score(k) > best.score}
        top == Least({k \in better : \A j \in better : score(j) <= score(k)})
    IN IF better = {} THEN best
       ELSE [intent |-> IntentOrder[top], score |-> score(top)]

FuzzyMatchIntent(u, lang, catalog) ==
    LET best == FuzzyLoop(u, lang, catalog, [intent |-> "None", score |-> 0])
    IN [intent |-> IF best.intent = "None" THEN "unknown" ELSE best.intent,
        score |-> best.score]

\* a fuzzy fallback that runs whatever the embedding stage scored
FuzzyStageAlways(u, lang, catalog, best) ==
    LET fuzzy == FuzzyMatchIntent(u, lang, catalog)
        fuzzy_threshold == IF lang = "ar" THEN 5000 ELSE 6000
    IN IF fuzzy.score > fuzzy_threshold /\ fuzzy.score > best.score
       THEN fuzzy ELSE best

\* the fuzzy fallback of detect_intent
FuzzyStage(u, lang, catalog, best) ==
    IF best.score < ConfidenceThreshold
    THEN LET fuzzy == FuzzyMatchIntent(u, lang, catalog)
             fuzzy_threshold == IF lang = "ar" THEN 5000 ELSE 6000
         IN IF fuzzy.score > fuzzy_threshold /\ fuzzy.score > best.score
            THEN fuzzy ELSE best
    ELSE best

\* a context fallback that runs whatever the stages before it scored
ContextStageUnguarded(cw, best) ==
    IF Len(cw) > 0
    THEN LET context_intent == PredictFromContext(cw)
         IN IF context_intent # "None"
            THEN [intent |-> context_intent, score |-> 3000] ELSE best
    ELSE best

\* the context fallback of detect_intent
ContextStage(cw, best) ==
    IF best.score < ConfidenceThreshold /\ Len(cw) > 0
    THEN LET context_intent == PredictFromContext(cw)
         IN IF context_intent # "None"
            THEN [intent |-> context_intent, score |-> 3000] ELSE best
    ELSE best

\* the cascade of detect_intent: best_intent or "unknown", best_score
Cascade(u, lang, index, catalog, cw) ==
    LET best == ContextStage(cw, FuzzyStage(u, lang, catalog,
                                            EmbeddingStage(u, index, catalog, cw)))
    IN [intent |-> IF best.intent = "None" THEN "unknown" ELSE best.intent,
        score |-> best.score]

\* best_intent = None; best_score = 0.0
NoBest == [intent |-> "None", score |-> 0]

\* the entry detect_intent appends to the context window
ContextEntry(u, r) == [text |-> u.text, intent |-> r.intent, score |-> r.score]

\* detect_intent(text, lang); raises: an encode call or the loop raises, which
\* the handler answers with ("unknown", 0.0) and no context update
DetectIntent(u, raises) ==
    /\ IF raises
       THEN /\ lastResult' = [intent |-> "unknown", score |-> 0, text |-> u.text,
                              updated |-> FALSE, seen |-> Len(phrase_embeddings),
                              lang |-> u.lang, window |-> context_window,
                              embedding |-> NoBest, fuzzy |-> NoBest,
                              after_fuzzy |-> NoBest, patterns |-> <<>>]
            /\ UNCHANGED <<context_window, history>>
       ELSE LET r == Cascade(u, u.lang, phrase_embeddings, intent_phrases, context_window)
            IN /\ context_window' = DequeAppend(context_window, ContextEntry(u, r))
               /\ history' = Append(history, ContextEntry(u, r))
               /\ lastResult' =
                     [intent |-> r.intent, score |-> r.score, text |-> u.text,
                      updated |-> TRUE, seen |-> Len(phrase_embeddings),
                      lang |-> u.lang, window |-> context_window,
                      patterns |-> PatternsToTry(u.text),
                      embedding |-> EmbeddingStage(u, phrase_embeddings, intent_phrases,
                                                   context_window),
                      fuzzy |-> FuzzyMatchIntent(u, u.lang, intent_phrases),
                      after_fuzzy |->
                          FuzzyStage(u, u.lang, intent_phrases,
                                     EmbeddingStage(u, phrase_embeddings, intent_phrases,
                                                    context_window))]
    /\ UNCHANGED <<intent_phrases, phrase_embeddings, normVars, svcVars, idxVars, fnVars>>

----------------------------------------------------------------------------
(* The state of the chatbot service: chatbot_instance is one object for    *)
(* all sessions                                                             *)

Sessions == {"A", "B"}

NoMessage == [message |-> <<>>, lang |-> "en"]

NoRequest ==
    [pc |-> "idle", m |-> NoMessage, intent |-> "None", confidence |-> 0,
     entities |-> NoEntities]

\* ghost: what is known of the last request of a session.  read_from is the
\* session whose original_message the conflict checker read
NoOutcome ==
    [done |-> FALSE, m |-> NoMessage, intent |-> "None", entities |-> NoEntities,
     response |-> NoResponse, read_from |-> "nobody", confidence |-> 0]

\* ChatbotService.__init__: self.context = {}
InitService ==
    /\ context = <<>>
    /\ context_writer = "nobody"
    /\ request = [s \in Sessions |-> NoRequest]
    /\ served = [s \in Sessions |-> NoOutcome]

----------------------------------------------------------------------------
(* The product vector index and semantic search                             *)

\* the "_id" of a document of the database, and a row number of the index
ObjectId(n) == [type |-> "ObjectId", value |-> n]
RowNumber(n) == [type |-> "int", value |-> n]

\* the pattern of normalize_weight: (\d*\.?\d+)\s*(kg|g|kilogram|gram)?
NormalizeWeightPattern ==
    Cat(<<Grp(1, Cat(<<Star(Chars(Digits)), Opt(Lit(<<".">>)), Plus(Chars(Digits))>>)),
          Spaces,
          Opt(Grp(2, Alt(<<Lit(<<"k", "g">>), Lit(<<"g">>),
                           Lit(<<"k", "i", "l", "o", "g", "r", "a", "m">>),
                           Lit(<<"g", "r", "a", "m">>)>>)))>>)

\* the bucket of num (hundredths) with the boundaries of the other test:
\* "<=" for light and "<" for medium
WeightBucketInclusive(num, unit) ==
    IF unit \in {<<"g">>, <<"g", "r", "a", "m">>}
    THEN IF num <= 500 * Hundredths THEN "light"
         ELSE IF num < 1500 * Hundredths THEN "medium" ELSE "heavy"
    ELSE IF unit \in {<<"k", "g">>, <<"k", "i", "l", "o", "g", "r", "a", "m">>}
    THEN IF num <= Hundredths THEN "light"
         ELSE IF num < 3 * Hundredths THEN "medium" ELSE "heavy"
    ELSE "unknown"

\* the bucket of num (hundredths) in a unit, lines 634-647
WeightBucket(num, unit) ==
    IF unit \in {<<"g">>, <<"g", "r", "a", "m">>}
    THEN IF num < 500 * Hundredths THEN "light"
         ELSE IF num <= 1500 * Hundredths THEN "medium" ELSE "heavy"
    ELSE IF unit \in {<<"k", "g">>, <<"k", "i", "l", "o", "g", "r", "a", "m">>}
    THEN IF num < Hundredths THEN "light"
         ELSE IF num <= 3 * Hundredths THEN "medium" ELSE "heavy"
    ELSE "unknown"

\* re.match(pattern, value): the match at offset 0
MatchAtStart(n, t) ==
    IF Match(n, t, 0, NoGroups) = <<>> THEN NoMatch
    ELSE MatchObject(0, Match(n, t, 0, NoGroups)[1])

\* normalize_weight(value).  value is a str, [type |-> "str", text |-> t], or
\* a number taken as kilograms, [type |-> "float", num |-> hundredths]
NormalizeWeight(value) ==
    LET Bucket(t, m) ==
            IF ~m.found THEN "unknown"
            ELSE WeightBucket(ParseDecimal(Group(m, t, 1)).value,
                              IF Group(m, t, 2) = <<>> THEN <<"k", "g">> ELSE Group(m, t, 2))
        OfText(t) == Bucket(t, MatchAtStart(NormalizeWeightPattern, t))
    IN IF value.type = "float" THEN WeightBucket(value.num, <<"k", "g">>)
       ELSE IF value.text = <<>> THEN "unknown"
       ELSE OfText(Strip(Lower(value.text)))

\* the text of a bucket, as the weights of the entities hold their words
BucketText(bucket) ==
    CASE bucket = "light" -> <<"l", "i", "g", "h", "t">>
      [] bucket = "medium" -> <<"m", "e", "d", "i", "u", "m">>
      [] bucket = "heavy" -> <<"h", "e", "a", "v", "y">>
      [] OTHER -> <<"u", "n", "k", "n", "o", "w", "n">>

\* the products collection: what the model keeps of a product document.
\* The ratings are in hundredths; the weight is what normalize_weight is
\* given, and the first product has no weight field
Products ==
    << [id |-> ObjectId(1), title |-> <<"b", "l", "u", "e", " ", "v", "a", "s", "e">>,
        price |-> 150, rating |-> 450, colors |-> {<<"B", "l", "u", "e">>},
        weight |-> [type |-> "str", text |-> <<>>]],
       [id |-> ObjectId(2), title |-> <<"r", "e", "d", " ", "b", "o", "w", "l">>,
        price |-> 700, rating |-> 300, colors |-> {<<"R", "e", "d">>},
        weight |-> [type |-> "str", text |-> <<"1", "k", "g">>]] >>

\* product_index = None; product_lookup = {}
NoIndex == [built |-> FALSE, rows |-> <<>>]
NoLookup == <<>>

\* the keys of product_lookup = {i: product for i, product in enumerate(...)}
LookupKeys(lookup) == {RowNumber(k - 1) : k \in 1..Len(lookup)}

\* the index over the embeddings of the products: row k is product k
IndexOf(products) == [built |-> TRUE, rows |-> [k \in 1..Len(products) |-> products[k].id]]

\* p["weight"] = normalized_weight: the product as the lookup keeps it
IndexedProduct(p) ==
    [p EXCEPT !.weight = [type |-> "str", text |-> BucketText(NormalizeWeight(p.weight))]]

\* product k as a filter is given it
Candidate(k, indexed) == IF indexed THEN IndexedProduct(Products[k]) ELSE Products[k]

\* _build_faiss_index.  found is what products_collection.find({}) gives:
\* "products", "empty", or "raises" (find or model.encode raises).  The text
\* of a product is never empty: normalize_size and normalize_weight give
\* "unknown" for a missing field.  The result is <<product_index, product_lookup>>
BuildFaissIndex(found) ==
    IF found = "products"
    THEN <<IndexOf(Products), [k \in 1..Len(Products) |-> IndexedProduct(Products[k])]>>
    ELSE <<NoIndex, NoLookup>>

\* EmbeddingService.search_products(query, k=20): the products of the
\* nearest rows, or the error marker.  encodes is FALSE when model.encode or
\* the index search raises
FaissError == [error |-> TRUE, products |-> <<>>]

SearchProducts(index, lookup, encodes) ==
    IF ~index.built \/ lookup = <<>> \/ ~encodes THEN FaissError
    ELSE [error |-> FALSE,
          products |-> [k \in 1..Len(index.rows) |-> lookup[k]]]

\* one product against the entities in _filter_by_entities.  The products
\* have no size, category, subcategories or artisan: a filter on one of
\* these rejects them.  The bucket of the weight of the product has to be an
\* element of the weights, where a (num, unit) pair equals no bucket.  A price range of one price cannot be unpacked,
\* which skips the product
MatchesFilter(product, entities, ctx) ==
    /\ entities.price_range # <<>> =>
          /\ Len(entities.price_range) = 2
          /\ entities.price_range[1] <= product.price
          /\ product.price <= (IF entities.price_range[2] = Infinity THEN 1000 * 1000
                               ELSE entities.price_range[2])
    /\ entities.rating # NoRating => product.rating >= entities.rating
    /\ entities.colors # {} => product.colors \cap entities.colors # {}
    /\ entities.size = {}
    /\ entities.weights # {} =>
          WeightWord(BucketText(NormalizeWeight(product.weight))) \in entities.weights
    /\ entities.categories = {}
    /\ entities.subcategories = {}
    /\ entities.artisans = {}
    /\ (/\ entities.colors = {} /\ entities.locations = {}
        /\ entities.price_range = <<>> /\ entities.rating \in {NoRating, 0})
       => LET query_text == Split(Lower(ContextGet(ctx, "original_message")))
          IN \E k \in 1..Len(query_text) :
                Len(query_text[k]) >= 3 /\ Contains(Lower(product.title), query_text[k])

\* _filter_by_entities(products, entities)
FilterByEntities(products, entities, ctx) ==
    SelectSeq(products, LAMBDA p : MatchesFilter(p, entities, ctx))

\* one product against the entities in _matches_entities.  Categories and
\* subcategories are not looked at; a product without artisan is rejected
\* when artisans are asked for; a price range that cannot be unpacked raises,
\* which the except clause answers with False.  The weights are compared as
\* lowered strings to str(weight) of the product; w.lower() raises for a
\* (num, unit) pair, so the answer is False when any() reaches a pair before
\* a word that matches.  The weights are in the order list(set(...)) left
\* them in: pair_first tells whether a pair comes before the matching word
MatchesEntities(product, entities, pair_first) ==
    /\ entities.price_range # <<>> =>
          /\ Len(entities.price_range) = 2
          /\ entities.price_range[1] <= product.price
          /\ product.price <= (IF entities.price_range[2] = Infinity THEN 1000 * 1000
                               ELSE entities.price_range[2])
    /\ entities.colors # {} =>
          \E c \in entities.colors : Lower(c) \in {Lower(pc) : pc \in product.colors}
    /\ entities.size = {}
    /\ entities.weights # {} =>
          /\ \E w \in entities.weights :
                w[1] = 0 - 1 /\ Lower(w[2]) = Lower(product.weight.text)
          /\ (\E w \in entities.weights : w[1] # 0 - 1) => ~pair_first
    /\ entities.rating # NoRating => product.rating >= entities.rating
    /\ entities.locations # {} =>
          \E loc \in entities.locations : Contains(Lower(product.title) \o <<" ">>, Lower(loc))
    /\ entities.artisans = {}

\* one product against the query that _handle_filter builds.  The bounds of
\* the price range are swapped when inverted; a colour matches as a
\* case-insensitive regular expression found anywhere in a colour of the
\* product; the products have no category, subcategories, artisan or size,
\* and the names asked for are names of the catalog, so a clause on one of
\* these fields rejects them; the weights are asked of a field "weights",
\* which no product has.  A price range that cannot be unpacked
\* raises, and the answer of _handle_error has no products
HandleFilterMatches(product, entities) ==
    LET min_price == entities.price_range[1]
        max_price == IF entities.price_range[2] = Infinity THEN 1000 * 1000
                     ELSE entities.price_range[2]
    IN /\ entities.price_range # <<>> =>
             /\ Len(entities.price_range) = 2
             /\ IF min_price > max_price
                THEN max_price <= product.price /\ product.price <= min_price
                ELSE min_price <= product.price /\ product.price <= max_price
       /\ entities.rating # NoRating => product.rating >= entities.rating
       /\ entities.categories = {}
       /\ entities.subcategories = {}
       /\ entities.artisans = {}
       /\ entities.colors # {} =>
             \E c \in entities.colors, pc \in product.colors : Contains(Lower(pc), Lower(c))
       /\ entities.size = {}
       /\ entities.weights = {}

\* the methods of ChatbotService that _safe_faiss_search calls by name:
\* normalize_text is a method of EmbeddingService only
ChatbotServiceMethods ==
    {"_format_suggestions", "_filter_by_entities", "_format_product",
     "_format_product_response"}

\* what a call of _safe_faiss_search comes to
Raised(error) == [raised |-> error, status |-> "None", products |-> <<>>, source |-> "None"]
Returned(status, products, source) ==
    [raised |-> "None", status |-> status, products |-> products, source |-> source]

\* the first five of a list
FirstFive(products) == SubSeq(products, 1, IF Len(products) < 5 THEN Len(products) ELSE 5)

\* the end of _safe_faiss_search: the products the lookup has under the
\* "_id" of a result are filtered; the lookup is keyed by row number, and an
\* "_id" is no row number
SemanticResults(results, lookup, entities, ctx) ==
    LET Format(full_products, filtered) ==
            IF filtered # <<>>
            THEN Returned("semantic_results", FirstFive(filtered), "semantic+filtered")
            ELSE IF full_products # <<>>
            THEN Returned("semantic_results", FirstFive(full_products), "semantic")
            ELSE Returned("no_results", <<>>, "None")
        Filter(full_products) ==
            Format(full_products, FilterByEntities(full_products, entities, ctx))
    IN Filter(SelectSeq(results, LAMBDA p : p.id \in LookupKeys(lookup)))

\* _safe_faiss_search(query_text, lang, entities, intent).  The response is
\* built before the try: its suggestions call _format_suggestions(lang,
\* intent=intent, entities=entities)
SafeFaissSearch(query_text, entities, lookup, results, ctx) ==
    IF ~CallBinds(FormatSuggestionsParameters, 1, {"intent", "entities"})
    THEN Raised("TypeError")
    ELSE IF Strip(query_text) = <<>> \/ lookup = <<>>
    THEN Returned("no_results", <<>>, "None")
    ELSE IF "normalize_text" \notin ChatbotServiceMethods
    THEN Returned("error", <<>>, "None")
    ELSE IF results.error THEN Returned("faiss_unavailable", <<>>, "None")
    ELSE SemanticResults(results.products, lookup, entities, ctx)

\* ghosts of the rebuilds, of the refreshes and of the searches
NoRebuild == [count |-> 0, failed |-> FALSE, before |-> <<NoIndex, NoLookup>>]
NoRefresh == [pc |-> "idle", count |-> 0, failed |-> FALSE, before |-> <<>>]
NoSearch ==
    [done |-> FALSE, unavailable |-> FALSE, candidates |-> <<>>, matching |-> <<>>,
     result |-> Returned("None", <<>>, "None")]

\* initialize_product_index(products), which _initialize_product_index
\* calls when the collection has products
InitializeProductIndex(index, found) ==
    IF found = "products" THEN IndexOf(Products) ELSE index

\* the product index after ChatbotService.__init__: EmbeddingService builds
\* it, the service keeps the lookup of that build as its own product_lookup,
\* and _initialize_product_index builds the index again.  The collection has
\* products or is empty at that time
InitIndex ==
    /\ \E found \in {"products", "empty"} :
          /\ product_index = InitializeProductIndex(BuildFaissIndex(found)[1], found)
          /\ product_lookup = BuildFaissIndex(found)[2]
          /\ service_lookup = BuildFaissIndex(found)[2]
    /\ rebuild = NoRebuild
    /\ refresh = NoRefresh
    /\ searched = NoSearch

----------------------------------------------------------------------------
(* The classification service on its own *)

NoResult ==
    [intent |-> "None", score |-> 0, text |-> <<>>, updated |-> FALSE,
     seen |-> Len(IntentOrder), lang |-> "en", window |-> <<>>,
     embedding |-> NoBest, fuzzy |-> NoBest, after_fuzzy |-> NoBest,
     patterns |-> <<>>]

\* EmbeddingService.__init__
InitEmbedding ==
    /\ intent_phrases = InitializeIntentPhrases
    /\ phrase_embeddings = PrecomputeEmbeddings(InitializeIntentPhrases)
    /\ context_window = <<>>
    /\ history = <<>>
    /\ lastResult = NoResult

\* no text has been handed to the normalizer
InitNormIdle ==
    /\ norm_input = [message |-> <<>>, lang |-> "en"]
    /\ norm_once = <<>>
    /\ norm_twice = <<>>
    /\ norm_pc = 0

\* no function of the service has been called
NoExtraction ==
    [done |-> FALSE, text |-> <<>>, lang |-> "en", db |-> "up", bounds |-> <<>>,
     raised |-> "None", entities |-> EmptyEntities]

NoProcessed ==
    [done |-> FALSE, message |-> <<>>, lang |-> "en", db |-> "up", outcome |-> "empty",
     fails |-> "none",
     raised |-> "None", response |-> NoResponse]

NoWeighed ==
    [done |-> FALSE, amount |-> 0, unit |-> <<>>, type |-> "str", bucket |-> "unknown"]

NoFiltered ==
    [done |-> FALSE, entities |-> EmptyEntities, product |-> 0, said |-> <<>>,
     indexed |-> FALSE, bucket |-> "unknown", without_weights |-> FALSE,
     filter_by_entities |-> FALSE, matches_entities |-> FALSE, handle_filter |-> FALSE]

NoClassified ==
    [done |-> FALSE, text |-> <<>>, lang |-> "en", db |-> "up", intent |-> "None",
     confidence |-> 0, entities |-> NoEntities]

NoPriced ==
    [done |-> FALSE, text |-> <<>>, lang |-> "en", price_range |-> <<>>]

InitFunctions ==
    /\ extracted = NoExtraction
    /\ processed = NoProcessed
    /\ weighed = NoWeighed
    /\ sifted = NoFiltered
    /\ classified = NoClassified
    /\ priced = NoPriced

Init == InitEmbedding /\ InitNormIdle /\ InitService /\ InitIndex /\ InitFunctions

Next ==
    /\ Len(history) < MaxCalls
    /\ \E u \in Utterances, raises \in BOOLEAN : DetectIntent(u, raises)

Spec == Init /\ [][Next]_vars

\* the utterances of SpecWindow: the window does not depend on what is classified
WindowUtterances == {u \in Utterances : u.simIntent = "greeting"}

NextWindow ==
    /\ Len(history) < MaxWindowCalls
    /\ \E u \in WindowUtterances, raises \in BOOLEAN : DetectIntent(u, raises)

SpecWindow == Init /\ [][NextWindow]_vars

----------------------------------------------------------------------------
(* The normalizer on its own: _preprocess_text applied to a text, then to   *)
(* its own result                                                           *)

NormWords ==
    { <<"h", "i">>,
      <<"A", "N", "A">>,
      <<"c", "3">>,
      <<"AR1", "AR0">>,
      <<"AIN", "ALEF", "YEH", "ZAIN">>,
      <<"MEEM", "AR_TATWEEL", "REH", "AR_FATHA", "HAH", "BEH", "ALEF">> }

\* texts of up to MaxNormWords words
NormTexts ==
    { JoinWords(ws) : ws \in UNION { [1..n -> NormWords] : n \in 1..MaxNormWords } }

InitNorm ==
    /\ InitEmbedding
    /\ InitService
    /\ InitIndex
    /\ InitFunctions
    /\ norm_input \in [message : NormTexts, lang : {"en", "ar"}]
    /\ norm_once = <<>>
    /\ norm_twice = <<>>
    /\ norm_pc = 0

\* cleaned, _ = self._preprocess_text(message, lang)
PreprocessOnce ==
    /\ norm_pc = 0
    /\ norm_once' = PreprocessText(norm_input.message, norm_input.lang)[1]
    /\ norm_pc' = 1
    /\ UNCHANGED <<norm_input, norm_twice, clsVars, svcVars, idxVars, fnVars>>

\* again, _ = self._preprocess_text(cleaned, lang)
PreprocessTwice ==
    /\ norm_pc = 1
    /\ norm_twice' = PreprocessText(norm_once, norm_input.lang)[1]
    /\ norm_pc' = 2
    /\ UNCHANGED <<norm_input, norm_once, clsVars, svcVars, idxVars, fnVars>>

NextNorm == PreprocessOnce \/ PreprocessTwice

SpecNorm == InitNorm /\ [][NextNorm]_vars

----------------------------------------------------------------------------
(* The chatbot service under concurrent requests: the server handles        *)
(* requests in threads                                                      *)

\* the messages of SpecSessions, each with its language tag
SessionMessages ==
    { [message |-> <<"r", "e", "d">>, lang |-> "en"],
      [message |-> <<"c", "h", "e", "a", "p", " ", "a", "n", "d", " ", "e", "x", "p", "e", "n", "s", "i", "v", "e">>,
       lang |-> "en"],
      [message |-> <<"7", " ", "t", "o", " ", "8", " ", "p", "o", "u", "n", "d", "s">>, lang |-> "en"],
      [message |-> <<" ">>, lang |-> "en"],
      [message |-> <<"AIN", "ALEF", "YEH", "ZAIN", " ", "REH", "KHAH", "YEH", "SAD">>,
       lang |-> "ar"] }

\* the preprocessed text of each message of SpecSessions, and what
\* _classify_intent makes of the message as chat() hands it over, computed once
CleanedOf == [m \in SessionMessages |-> ProcessedMessage(m.message, m.lang)]

ClassifiedOf ==
    [m \in SessionMessages, db \in {"up", "down", "lost"} |->
        ClassifyIntent(m.message, m.lang, db)]

\* the 400 answer of chat() to a text that is empty after strip()
BadRequest ==
    Response("error", "bad_request", 0, "None", "None", NoEntities, FALSE, "None")

\* chat() up to the write of self.context in process_message: the text is
\* checked and classified, and process_message, which gets the text with the
\* intent and the entities of the classifier, preprocesses it and stores it
ChatBegin(s, m, db) ==
    /\ request[s].pc = "idle"
    /\ IF Strip(m.message) = <<>>
       THEN /\ served' = [served EXCEPT ![s] =
                             [done |-> TRUE, m |-> m, intent |-> "None",
                              entities |-> NoEntities, response |-> BadRequest,
                              read_from |-> "nobody", confidence |-> 0]]
            /\ UNCHANGED <<context, context_writer, request>>
       ELSE /\ context' = [k \in {"last_message", "original_message"} |->
                              IF k = "last_message" THEN CleanedOf[m] ELSE m.message]
            /\ context_writer' = s
            /\ request' = [request EXCEPT ![s] =
                              [pc |-> "written", m |-> m,
                               intent |-> ClassifiedOf[m, db].intent,
                               confidence |-> ClassifiedOf[m, db].confidence,
                               entities |-> ClassifiedOf[m, db].entities]]
            /\ served' = [served EXCEPT ![s] = NoOutcome]
    /\ UNCHANGED <<clsVars, normVars, idxVars, fnVars>>

\* the rest of process_message: the conflict check, which reads self.context
\* as it is by then, the clarification test and the handler
ChatFinish(s, db, outcome) ==
    /\ request[s].pc = "written"
    /\ LET r == request[s]
       IN served' = [served EXCEPT ![s] =
                        [done |-> TRUE, m |-> r.m, intent |-> r.intent,
                         confidence |-> r.confidence,
                         entities |-> r.entities,
                         response |-> ProcessClassified(CleanedOf[r.m], r.m.lang, r.intent,
                                                        r.entities, context, db, outcome),
                         read_from |-> IF InvertedPriceRange(r.entities.e) THEN "nobody"
                                       ELSE context_writer]]
    /\ request' = [request EXCEPT ![s] = NoRequest]
    /\ UNCHANGED <<context, context_writer, clsVars, normVars, idxVars, fnVars>>

NextSessions ==
    \/ \E s \in Sessions, m \in SessionMessages, db \in {"up", "down", "lost"} :
          ChatBegin(s, m, db)
    \/ \E s \in Sessions, db \in {"up", "down", "lost"},
         outcome \in {"products", "empty", "raises"} :
          ChatFinish(s, db, outcome)

SpecSessions == Init /\ [][NextSessions]_vars

----------------------------------------------------------------------------
(* The indexes under the build at startup, refreshes of the intent index    *)
(* and semantic searches                                                     *)

\* chatbot_instance.embedding_service._build_faiss_index() at startup: the
\* second build of the index.  The product_lookup of the service stays the
\* dict of the first build
BuildAtStartup(found) ==
    /\ rebuild.count = 0
    /\ product_index' = BuildFaissIndex(found)[1]
    /\ product_lookup' = BuildFaissIndex(found)[2]
    /\ rebuild' = [count |-> 1, failed |-> found = "raises",
                   before |-> <<product_index, product_lookup>>]
    /\ UNCHANGED <<service_lookup, refresh, searched, clsVars, normVars, svcVars, fnVars>>

\* refresh_intent_index up to the first line of _precompute_embeddings:
\* the catalog is reloaded and phrase_embeddings is a new empty dict
RefreshBegin ==
    /\ refresh.pc = "idle"
    /\ refresh.count < MaxRefreshes
    /\ intent_phrases' = InitializeIntentPhrases
    /\ phrase_embeddings' = <<>>
    /\ refresh' = [pc |-> "running", count |-> refresh.count + 1, failed |-> FALSE,
                   before |-> phrase_embeddings]
    /\ UNCHANGED <<context_window, history, lastResult, product_index, product_lookup,
                   service_lookup, rebuild, searched, normVars, svcVars, fnVars>>

\* one turn of the loop of _precompute_embeddings: the phrases of the next
\* intent are encoded and its entry is stored; raises: model.encode raises,
\* which ends the refresh with the entries stored so far
RefreshEncode(raises) ==
    /\ refresh.pc = "running"
    /\ IF raises
       THEN /\ refresh' = [refresh EXCEPT !.pc = "idle", !.failed = TRUE]
            /\ UNCHANGED phrase_embeddings
       ELSE LET i == IntentOrder[Len(phrase_embeddings) + 1]
            IN /\ phrase_embeddings' =
                      Append(phrase_embeddings, EmbeddingEntry(i, intent_phrases[i]))
               /\ refresh' = [refresh EXCEPT !.pc =
                      IF Len(phrase_embeddings) + 1 = Len(IntentOrder) THEN "idle" ELSE "running"]
    /\ UNCHANGED <<intent_phrases, context_window, history, lastResult, product_index,
                   product_lookup, service_lookup, rebuild, searched, normVars, svcVars, fnVars>>

\* what a search leaves in the ghost: the candidates of the semantic search
\* and those of them that the filter keeps
Searched(results, entities, ctx, result) ==
    [done |-> TRUE,
     unavailable |-> \/ ~product_index.built \/ product_lookup = <<>>
                     \/ service_lookup = <<>> \/ results.error,
     candidates |-> results.products,
     matching |-> FilterByEntities(results.products, entities, ctx),
     result |-> result]

\* a call _safe_faiss_search(text, lang, entities, intent) with the entities
\* of the text; encodes: model.encode and the index search do not raise
SemanticSearch(m, encodes) ==
    /\ rebuild.count = 1
    /\ Strip(m.message) # <<>>
    /\ searched' =
          Searched(SearchProducts(product_index, product_lookup, encodes),
                   ClassifiedOf[m, "up"].entities.e, context,
                   SafeFaissSearch(m.message, ClassifiedOf[m, "up"].entities.e, service_lookup,
                                   SearchProducts(product_index, product_lookup, encodes),
                                   context))
    /\ UNCHANGED <<product_index, product_lookup, service_lookup, rebuild, refresh,
                   clsVars, normVars, svcVars, fnVars>>

\* a classification while the indexes change
ClassifyDuringRefresh(u) ==
    /\ Len(history) < MaxIndexCalls
    /\ DetectIntent(u, FALSE)

NextIndex ==
    \/ \E found \in {"products", "empty", "raises"} : BuildAtStartup(found)
    \/ RefreshBegin
    \/ \E raises \in BOOLEAN : RefreshEncode(raises)
    \/ \E m \in SessionMessages, encodes \in BOOLEAN : SemanticSearch(m, encodes)
    \/ \E u \in WindowUtterances : ClassifyDuringRefresh(u)

SpecIndex == Init /\ [][NextIndex]_vars

----------------------------------------------------------------------------
(* The functions of the service called on their own                         *)

\* str(n) of a whole number below 10000
NumberText(n) ==
    IF n < 10 THEN <<AsciiDigitOrder[n + 1]>>
    ELSE IF n < 100 THEN <<AsciiDigitOrder[(n \div 10) + 1], AsciiDigitOrder[(n % 10) + 1]>>
    ELSE IF n < 1000
    THEN <<AsciiDigitOrder[(n \div 100) + 1], AsciiDigitOrder[((n \div 10) % 10) + 1],
           AsciiDigitOrder[(n % 10) + 1]>>
    ELSE <<AsciiDigitOrder[(n \div 1000) + 1], AsciiDigitOrder[((n \div 100) % 10) + 1],
           AsciiDigitOrder[((n \div 10) % 10) + 1], AsciiDigitOrder[(n % 10) + 1]>>

\* a number of hundredths written with its decimals: 150 is "1.5"
DecimalText(h) ==
    IF h % Hundredths = 0 THEN NumberText(h \div Hundredths)
    ELSE IF h % 10 = 0
    THEN NumberText(h \div Hundredths) \o <<".", AsciiDigitOrder[((h \div 10) % 10) + 1]>>
    ELSE NumberText(h \div Hundredths)
            \o <<".", AsciiDigitOrder[((h \div 10) % 10) + 1], AsciiDigitOrder[(h % 10) + 1]>>

\* the prices of the two-bound expressions
PriceBounds == {7, 8, 100, 300}

\* "a to b pounds"
TwoBoundText(a, b) ==
    NumberText(a) \o <<" ", "t", "o", " ">> \o NumberText(b)
        \o <<" ", "p", "o", "u", "n", "d", "s">>

\* utterances handed to one function of the service, besides those of the
\* sessions: a category word, weights after "under", rating terms
ExtraMessages ==
    { [message |-> <<"p", "o", "t", "t", "e", "r", "y">>, lang |-> "en"],
      [message |-> <<"u", "n", "d", "e", "r", " ", "2", " ", "k", "g">>, lang |-> "en"],
      [message |-> <<"u", "n", "d", "e", "r", " ", "2", "5", " ", "k", "g">>, lang |-> "en"],
      [message |-> <<"u", "n", "d", "e", "r", " ", "2", "5", " ", "p", "o", "u", "n", "d", "s">>,
       lang |-> "en"],
      [message |-> <<"e", "x", "c", "e", "l", "l", "e", "n", "t">>, lang |-> "en"],
      [message |-> <<"v", "e", "r", "y", " ", "g", "o", "o", "d">>, lang |-> "en"],
      [message |-> <<"4", " ", "s", "t", "a", "r", "s">>, lang |-> "en"],
      [message |-> <<"MEEM", "MEEM", "TEH", "ALEF", "ZAIN">>, lang |-> "ar"] }

FunctionMessages == SessionMessages \cup ExtraMessages

\* the same extraction for every input: a memo of TryExtractEntities
ExtractedOfMessage ==
    [m \in FunctionMessages, db \in {"up", "down", "lost"} |->
        TryExtractEntities(m.message, m.lang, db)]
ExtractedOfBounds ==
    [a \in PriceBounds, b \in PriceBounds, db \in {"up", "down", "lost"} |->
        TryExtractEntities(TwoBoundText(a, b), "en", db)]

\* _extract_entities(text, lang) of a message
ExtractMessage(m, db) ==
    /\ extracted' = [done |-> TRUE, text |-> m.message, lang |-> m.lang, db |-> db,
                     bounds |-> <<>>,
                     raised |-> ExtractedOfMessage[m, db].raised,
                     entities |-> ExtractedOfMessage[m, db].entities]
    /\ processed' = NoProcessed
    /\ weighed' = NoWeighed
    /\ sifted' = NoFiltered
    /\ classified' = NoClassified
    /\ priced' = NoPriced
    /\ UNCHANGED <<clsVars, normVars, svcVars, idxVars>>

\* _extract_entities(text, "en") of a two-bound price expression
ExtractTwoBounds(a, b, db) ==
    /\ extracted' = [done |-> TRUE, text |-> TwoBoundText(a, b), lang |-> "en", db |-> db,
                     bounds |-> <<a, b>>,
                     raised |-> ExtractedOfBounds[a, b, db].raised,
                     entities |-> ExtractedOfBounds[a, b, db].entities]
    /\ processed' = NoProcessed
    /\ weighed' = NoWeighed
    /\ sifted' = NoFiltered
    /\ classified' = NoClassified
    /\ priced' = NoPriced
    /\ UNCHANGED <<clsVars, normVars, svcVars, idxVars>>

\* the same classification for every input: a memo of ClassifyIntent
ClassifiedOfMessage ==
    [m \in FunctionMessages, db \in {"up", "down", "lost"} |->
        ClassifyIntent(m.message, m.lang, db)]

\* _classify_intent(text, lang) of a message
ClassifyMessage(m, db) ==
    /\ classified' = [done |-> TRUE, text |-> m.message, lang |-> m.lang, db |-> db,
                      intent |-> ClassifiedOfMessage[m, db].intent,
                      confidence |-> ClassifiedOfMessage[m, db].confidence,
                      entities |-> ClassifiedOfMessage[m, db].entities]
    /\ extracted' = NoExtraction
    /\ processed' = NoProcessed
    /\ weighed' = NoWeighed
    /\ sifted' = NoFiltered
    /\ priced' = NoPriced
    /\ UNCHANGED <<clsVars, normVars, svcVars, idxVars>>

\* the same price range for every input: a memo of ExtractPriceRange
PricedOfMessage == [m \in FunctionMessages |-> ExtractPriceRange(m.message, m.lang)]

\* _extract_price_range(text, lang) of a message
ExtractPriceRangeCall(m) ==
    /\ priced' = [done |-> TRUE, text |-> m.message, lang |-> m.lang,
                  price_range |-> PricedOfMessage[m]]
    /\ extracted' = NoExtraction
    /\ processed' = NoProcessed
    /\ weighed' = NoWeighed
    /\ sifted' = NoFiltered
    /\ classified' = NoClassified
    /\ UNCHANGED <<clsVars, normVars, svcVars, idxVars>>

\* the failures of a process_message call: of the preprocessing, and of the
\* preprocessing and then of the error formatting of _handle_error
StageFailures == {"none", "preprocess", "preprocess+format"}

\* the same answer for every input: a memo of ProcessMessage on the intent
\* and entities _classify_intent gives for the message
ProcessedOf ==
    [m \in SessionMessages, db \in {"up", "down", "lost"},
     outcome \in {"products", "empty", "raises"}, fails \in StageFailures |->
        ProcessMessage(m.message, m.lang, ClassifiedOf[m, db].intent,
                       ClassifiedOf[m, db].entities, <<>>, db, outcome, fails)]

\* process_message(message, lang, intent, entities) on its own
ProcessMessageCall(m, db, outcome, fails) ==
    /\ processed' = [done |-> TRUE, message |-> m.message, lang |-> m.lang, db |-> db,
                     outcome |-> outcome, fails |-> fails,
                     raised |-> ProcessedOf[m, db, outcome, fails].raised,
                     response |-> ProcessedOf[m, db, outcome, fails].response]
    /\ context' = IF ProcessMessageError(m.message, fails) # "None" THEN context
                  ELSE ProcessedOf[m, db, outcome, fails].context
    /\ context_writer' = "nobody"
    /\ extracted' = NoExtraction
    /\ weighed' = NoWeighed
    /\ sifted' = NoFiltered
    /\ classified' = NoClassified
    /\ priced' = NoPriced
    /\ UNCHANGED <<request, served, clsVars, normVars, idxVars>>

\* the weights normalize_weight is called with, in hundredths, around the
\* boundaries of the buckets, and the ways a unit is written after them
WeightAmounts ==
    {99, 100, 101, 150, 299, 300, 301, 400,
     499 * Hundredths, 500 * Hundredths, 1500 * Hundredths, 1501 * Hundredths}
WeightUnits ==
    {<<"g">>, <<" ", "g">>, <<"G">>, <<" ", "g", "r", "a", "m">>,
     <<"k", "g">>, <<" ", "k", "g">>, <<" ", "K", "g">>,
     <<" ", "k", "i", "l", "o", "g", "r", "a", "m">>}

\* the same bucket for every input: a memo of normalize_weight on the
\* weights written as a str with a unit
NormalizedOfText ==
    [amount \in WeightAmounts, unit \in WeightUnits |->
        NormalizeWeight([type |-> "str", text |-> DecimalText(amount) \o unit])]

\* normalize_weight of a weight written as a str with a unit
NormalizeWeightText(amount, unit) ==
    /\ weighed' = [done |-> TRUE, amount |-> amount, unit |-> Strip(Lower(unit)),
                   type |-> "str", bucket |-> NormalizedOfText[amount, unit]]
    /\ extracted' = NoExtraction
    /\ processed' = NoProcessed
    /\ sifted' = NoFiltered
    /\ classified' = NoClassified
    /\ priced' = NoPriced
    /\ UNCHANGED <<clsVars, normVars, svcVars, idxVars>>

\* normalize_weight of a weight given as a number
NormalizeWeightNumber(amount) ==
    /\ weighed' = [done |-> TRUE, amount |-> amount, unit |-> <<"k", "g">>,
                   type |-> "float",
                   bucket |-> NormalizeWeight([type |-> "float", num |-> amount])]
    /\ extracted' = NoExtraction
    /\ processed' = NoProcessed
    /\ sifted' = NoFiltered
    /\ classified' = NoClassified
    /\ priced' = NoPriced
    /\ UNCHANGED <<clsVars, normVars, svcVars, idxVars>>

\* the messages whose entities the filters are given
FilterMessages ==
    SessionMessages
    \cup {[message |-> <<"u", "n", "d", "e", "r", " ", "2", " ", "k", "g">>, lang |-> "en"]}

\* what self.context holds while a filter runs: an utterance with a word of
\* a product title, and one without
SaidMessages ==
    { [message |-> <<"r", "e", "d">>, lang |-> "en"],
      [message |-> <<" ">>, lang |-> "en"] }

\* the three filters on product k with the entities of message m, while
\* self.context holds the message said.  The product is the document of the
\* collection or, when indexed, the product as product_lookup keeps it (the
\* candidates of the semantic search); bucket is what normalize_weight makes
\* of its weight, and without_weights the answer of _filter_by_entities to
\* the same entities without their weights
SiftedOf ==
    [m \in FilterMessages, said \in SaidMessages, k \in 1..Len(Products),
     indexed \in BOOLEAN, pair_first \in BOOLEAN |->
        [done |-> TRUE, entities |-> ExtractedOfMessage[m, "up"].entities,
         product |-> k, said |-> said.message, indexed |-> indexed,
         bucket |-> NormalizeWeight(Candidate(k, indexed).weight),
         filter_by_entities |->
             MatchesFilter(Candidate(k, indexed), ExtractedOfMessage[m, "up"].entities,
                           WrittenContext(said.message, said.lang)),
         without_weights |->
             MatchesFilter(Candidate(k, indexed),
                           [ExtractedOfMessage[m, "up"].entities EXCEPT !.weights = {}],
                           WrittenContext(said.message, said.lang)),
         matches_entities |->
             MatchesEntities(Candidate(k, indexed), ExtractedOfMessage[m, "up"].entities,
                             pair_first),
         handle_filter |->
             HandleFilterMatches(Candidate(k, indexed), ExtractedOfMessage[m, "up"].entities)]]

\* one call of each filter
FilterProduct(m, said, k, indexed, pair_first) ==
    /\ sifted' = SiftedOf[m, said, k, indexed, pair_first]
    /\ extracted' = NoExtraction
    /\ processed' = NoProcessed
    /\ weighed' = NoWeighed
    /\ classified' = NoClassified
    /\ priced' = NoPriced
    /\ UNCHANGED <<clsVars, normVars, svcVars, idxVars>>

NextFunctions ==
    \/ \E m \in FunctionMessages, db \in {"up", "down", "lost"} : ExtractMessage(m, db)
    \/ \E m \in FunctionMessages, db \in {"up", "down", "lost"} : ClassifyMessage(m, db)
    \/ \E m \in FunctionMessages : ExtractPriceRangeCall(m)
    \/ \E a \in PriceBounds, b \in PriceBounds, db \in {"up", "down", "lost"} :
          ExtractTwoBounds(a, b, db)
    \/ \E m \in SessionMessages, db \in {"up", "down", "lost"},
          outcome \in {"products", "empty", "raises"}, fails \in StageFailures :
          ProcessMessageCall(m, db, outcome, fails)
    \/ \E amount \in WeightAmounts, unit \in WeightUnits : NormalizeWeightText(amount, unit)
    \/ \E amount \in WeightAmounts : NormalizeWeightNumber(amount)
    \/ \E m \in FilterMessages, said \in SaidMessages, k \in 1..Len(Products),
          indexed \in BOOLEAN, pair_first \in BOOLEAN :
          FilterProduct(m, said, k, indexed, pair_first)

\* the functions are called on a service constructed over a catalog with
\* products; none of them reads the index
InitOverCatalog == Init /\ product_index.built

SpecFunctions == InitOverCatalog /\ [][NextFunctions]_vars

----------------------------------------------------------------------------
(* C1: every classification returns a confidence in [0, 1].  Stated of the  *)
(* embedding cascade detect_intent: the score it returns, after the 1.05   *)
(* mixed-variant boost and the context boost, lies between 0 and Scale.    *)
ConfidenceInUnitInterval == lastResult.score >= 0 /\ lastResult.score <= Scale

(* C2: the context window holds exactly the last min(n, 5) of the n        *)
(* entries appended so far, in call order, and never more than 5.          *)
LastEntries(h, n) == SubSeq(h, Len(h) - n + 1, Len(h))

Min(a, b) == IF a <= b THEN a ELSE b

WindowHoldsLastFive ==
    /\ Len(context_window) <= 5
    /\ context_window = LastEntries(history, Min(Len(history), 5))

\* six classifications were appended and the oldest entry was evicted
WindowEvictedOldest ==
    /\ Len(history) = 6
    /\ Len(context_window) = 5
    /\ context_window[1] = history[2]
    /\ context_window[5] = history[6]
    /\ lastResult.updated

(* C3: two sessions never read each other's conversational state.  Stated   *)
(* of the conflict check: the original_message it reads for a request of a  *)
(* session was written by that session.                                     *)
SessionsIsolated ==
    \A s \in Sessions : served[s].done => served[s].read_from \in {"nobody", s}

(* C4: when the entities handed to process_message carry a price range with *)
(* min > max, the result asks for clarification with the invalid price      *)
(* range reason, has confidence 0 and the entities as handed, and no        *)
(* handler has run for the request.                                         *)
InvertedRangeShortCircuits ==
    \A s \in Sessions :
        served[s].done /\ served[s].entities.present
            /\ InvertedPriceRange(served[s].entities.e)
        => /\ served[s].response.needs_clarification
           /\ served[s].response.reason = "invalid_price_range"
           /\ served[s].response.confidence = 0
           /\ served[s].response.entities = served[s].entities
           /\ served[s].response.handler \notin RetrievalHandlers
           /\ served[s].response.handler = "None"

\* a request whose entities carry an inverted price range has been answered
InvertedRangeServed ==
    \E s \in Sessions :
        /\ served[s].done
        /\ InvertedPriceRange(served[s].entities.e)
        /\ served[s].response.reason = "invalid_price_range"

(* C5: a request that reaches the price term test of the conflict check is  *)
(* answered with the conflicting price clarification exactly when its own   *)
(* original utterance has a cheap term and an expensive term of its         *)
(* language.                                                                *)
ConflictDecidedByOwnUtterance ==
    \A s \in Sessions :
        served[s].done /\ served[s].entities.present
            /\ ~InvertedPriceRange(served[s].entities.e)
        => ((/\ served[s].response.needs_clarification
             /\ served[s].response.reason = "conflicting_price")
            <=> HasConflictingPriceTerms(served[s].m.message, served[s].m.lang))

(* C6: a search whose semantic candidates are not empty never returns an    *)
(* empty product list: when the filter keeps none of the candidates the      *)
(* result is the top candidates with source "semantic", and when it keeps    *)
(* at least one the source is "semantic+filtered".                           *)
SearchKeepsCandidates ==
    searched.done /\ searched.candidates # <<>>
    => /\ searched.result.raised = "None"
       /\ searched.matching = <<>> =>
             /\ searched.result.source = "semantic"
             /\ searched.result.products # <<>>
       /\ searched.matching # <<>> => searched.result.source = "semantic+filtered"

(* C7: a search made while the product index is unavailable (not built, or  *)
(* with an empty lookup) or whose semantic search gives the error marker     *)
(* reports a status other than no_results.                                   *)
UnavailableIsNotNoResults ==
    searched.done /\ searched.unavailable
    => /\ searched.result.raised = "None"
       /\ searched.result.status # "no_results"

(* C8: after a failed build of the product index the index and its lookup   *)
(* are those before the build, and after a failed refresh of the intent      *)
(* index phrase_embeddings is the one before the refresh.                    *)
FailedRebuildKeepsIndex ==
    /\ rebuild.failed /\ rebuild.before[1].built
       => <<product_index, product_lookup>> = rebuild.before
    /\ refresh.failed /\ Len(refresh.before) = Len(IntentOrder)
       => phrase_embeddings = refresh.before

(* C9: in every state phrase_embeddings has one entry for every intent of   *)
(* the catalog, with as many phrases as the catalog has for the intent, and  *)
(* every classification has seen an index with all the intents.              *)
IndexMatchesCatalog ==
    /\ Len(phrase_embeddings) = Len(IntentOrder)
    /\ \A k \in 1..Len(phrase_embeddings) :
          /\ phrase_embeddings[k].intent = IntentOrder[k]
          /\ phrase_embeddings[k].phrases = FlattenedCount(intent_phrases[IntentOrder[k]])
    /\ lastResult.seen = Len(IntentOrder)

(* C11: the price range extracted from a two-bound expression with bounds a *)
(* and b is (min(a,b), max(a,b)), and every extracted price range has        *)
(* min <= max.                                                               *)
PriceRangeOrdered ==
    extracted.done
    => /\ Len(extracted.entities.price_range) = 2
          => extracted.entities.price_range[1] <= extracted.entities.price_range[2]
       /\ extracted.db = "up" /\ extracted.bounds # <<>>
          => extracted.entities.price_range =
                IF extracted.bounds[1] <= extracted.bounds[2]
                THEN extracted.bounds
                ELSE <<extracted.bounds[2], extracted.bounds[1]>>

(* C12: _extract_entities never raises, and when the database fails the     *)
(* entities it returns hold the fields populated before the failure: none    *)
(* when the first query fails, the titles, price range, weights and rating   *)
(* when the category query fails.                                            *)
ExtractionReturnsPartial ==
    extracted.done
    => /\ extracted.raised = "None"
       /\ extracted.db = "down" => extracted.entities = EmptyEntities
       /\ extracted.db = "lost" =>
             extracted.entities =
                [EmptyEntities EXCEPT
                   !.product_titles = ProductTitles(TextLower(extracted.text, extracted.lang)),
                   !.price_range = PriceRange(TextLower(extracted.text, extracted.lang), extracted.lang),
                   !.weights = Weights(TextLower(extracted.text, extracted.lang), extracted.lang),
                   !.rating = Rating(TextLower(extracted.text, extracted.lang), extracted.lang)]

ExtractionFailedPartWay ==
    /\ extracted.done
    /\ extracted.db = "lost"
    /\ extracted.entities.price_range # <<>>

(* C13: process_message returns a response with a status for every message *)
(* and for every failure of the preprocessing, of a handler and of the       *)
(* error formatting; no error leaves it.                                     *)
ProcessMessageAlwaysAnswers ==
    processed.done
    => /\ processed.raised = "None"
       /\ processed.response.status \in
             {"success", "no_results", "clarify", "error", "help", "feedback"}
       /\ processed.fails # "none" => processed.response.status = "error"

ProcessMessageAnsweredFailure ==
    /\ processed.done
    /\ processed.fails = "preprocess+format"
    /\ processed.response.status = "error"

(* C14: the intent a classification returns is one of the intents of the    *)
(* catalog or "unknown", for the keyword classifier of a chat request and    *)
(* for the cascade of detect_intent.                                         *)
ClassifiedIntentDeclared ==
    /\ \A s \in Sessions :
          served[s].done /\ served[s].intent # "None"
          => served[s].intent \in Intents \cup {"unknown"}
    /\ lastResult.intent # "None" => lastResult.intent \in Intents \cup {"unknown"}

(* C15: normalize_weight puts a weight in grams below 500 in "light", from  *)
(* 500 to 1500 in "medium" and above 1500 in "heavy", and a weight in        *)
(* kilograms below 1 in "light", from 1 to 3 in "medium" and above 3 in      *)
(* "heavy".                                                                  *)
WeightBucketsByUnit ==
    weighed.done
    => weighed.bucket =
          IF weighed.unit \in {<<"g">>, <<"g", "r", "a", "m">>}
          THEN IF weighed.amount < 500 * Hundredths THEN "light"
               ELSE IF weighed.amount <= 1500 * Hundredths THEN "medium" ELSE "heavy"
          ELSE IF weighed.amount < Hundredths THEN "light"
               ELSE IF weighed.amount <= 3 * Hundredths THEN "medium" ELSE "heavy"

WeighedOnBoundary ==
    /\ weighed.done
    /\ weighed.type = "str"
    /\ weighed.amount = 500 * Hundredths
    /\ weighed.unit = <<"g">>
    /\ weighed.bucket = "medium"

(* C16: _filter_by_entities, _matches_entities and the query of            *)
(* _handle_filter give the same answer for the same entities and product.    *)
FilterPredicatesAgree ==
    sifted.done
    => /\ sifted.filter_by_entities = sifted.matches_entities
       /\ sifted.filter_by_entities = sifted.handle_filter

(* C17: every classification appends one entry (utterance, intent,         *)
(* confidence) to the context window.  Stated of chat(): once a request is   *)
(* classified, the window holds an entry with its utterance and its intent.  *)
ClassificationRecorded ==
    \A s \in Sessions :
        request[s].pc = "written"
        => \E k \in 1..Len(context_window) :
              /\ context_window[k].text = request[s].m.message
              /\ context_window[k].intent = request[s].intent

(* C18: the context fallback changes the result of the stages before it     *)
(* only when their best score is below the threshold and the window is not  *)
(* empty; the intent it adopts occurs at least twice in the window, and the *)
(* adopted confidence is 0.3.                                               *)
ContextFallbackGuarded ==
    lastResult.updated
    => LET before == lastResult.after_fuzzy
           unchanged == /\ lastResult.score = before.score
                        /\ lastResult.intent = IF before.intent = "None" THEN "unknown"
                                               ELSE before.intent
           majority == {i \in Intents \cup {"unknown"} : IntentCount(lastResult.window, i) >= 2}
       IN /\ (before.score >= ConfidenceThreshold \/ lastResult.window = <<>>) => unchanged
          /\ ~unchanged => /\ lastResult.intent \in majority
                           /\ lastResult.score = (3 * Scale) \div 10
          /\ (/\ before.score < ConfidenceThreshold
              /\ lastResult.window # <<>>
              /\ majority = {}) => unchanged

ContextFallbackAdopted ==
    /\ lastResult.updated
    /\ lastResult.after_fuzzy.score < ConfidenceThreshold
    /\ IntentCount(lastResult.window, lastResult.intent) >= 2
    /\ lastResult.intent # lastResult.after_fuzzy.intent
    /\ lastResult.score = (3 * Scale) \div 10

(* C19: when the embedding best is below the threshold, the fuzzy fallback  *)
(* does not replace it and the context fallback adopts nothing,             *)
(* detect_intent returns "unknown" with confidence 0.                       *)
UnacceptedIsUnknown ==
    (/\ lastResult.updated
     /\ lastResult.embedding.score < ConfidenceThreshold
     /\ lastResult.after_fuzzy = lastResult.embedding
     /\ PredictFromContext(lastResult.window) = "None")
    => lastResult.intent = "unknown" /\ lastResult.score = 0

PreprocessIdempotent == norm_pc = 2 => norm_twice = norm_once

(* C21: an utterance is scored against the ar, en and mixed variants if and  *)
(* only if it has both an ASCII letter and a character of the Arabic block; *)
(* otherwise an utterance with an Arabic character is scored against the ar *)
(* variants only, and any other utterance against the en variants only.     *)
ScriptDecidesVariants ==
    lastResult.updated
    => LET text == lastResult.text
           letter == \E k \in 1..Len(text) : text[k] \in AsciiLetters
           arabic == \E k \in 1..Len(text) : InArabicBlock(text[k])
           tried == {lastResult.patterns[k] : k \in 1..Len(lastResult.patterns)}
       IN tried = IF letter /\ arabic THEN {"ar", "en", "mixed"}
                  ELSE IF arabic THEN {"ar"} ELSE {"en"}

(* C22: when the text has no greeting, recommendation, help or feedback     *)
(* keyword and the entities hold a category or a subcategory,               *)
(* _classify_intent returns category_query.                                 *)
CategoryGivesCategoryQuery ==
    (/\ classified.done
     /\ classified.entities.present
     /\ \/ classified.entities.e.categories # {}
        \/ classified.entities.e.subcategories # {}
     /\ classified.intent \notin {"greeting", "recommendation", "help", "feedback"})
    => classified.intent = "category_query"

(* C23: a number that is followed at once by a weight unit gives no price   *)
(* range, whatever its number of digits: neither _extract_entities nor      *)
(* _extract_price_range finds a price range in a text whose only number     *)
(* has a weight unit after it.                                              *)
NoPriceFromWeight ==
    LET weighted(text) ==
            Search(Cat(<<Plus(Chars(Digits)), Spaces,
                         Alt(<<Lit(<<"k", "g">>), Lit(<<"g">>)>>), WordBoundary>>),
                   Lower(text)).found
    IN /\ (extracted.done /\ weighted(extracted.text))
          => extracted.entities.price_range = <<>>
       /\ (priced.done /\ weighted(priced.text)) => priced.price_range = <<>>

(* C24: a rating term without a number of stars sets the rating:            *)
(* "excellent" and its Arabic equivalent give 5.0 and "very good" gives 4.0.*)
QualitativeRatingMapped ==
    (extracted.done /\ extracted.db = "up")
    => /\ extracted.text \in {<<"e", "x", "c", "e", "l", "l", "e", "n", "t">>,
                              <<"MEEM", "MEEM", "TEH", "ALEF", "ZAIN">>}
          => extracted.entities.rating = 5 * Hundredths
       /\ extracted.text = <<"v", "e", "r", "y", " ", "g", "o", "o", "d">>
          => extracted.entities.rating = 4 * Hundredths

(* C25: a failing catalog read does not keep the fields that do not read    *)
(* the catalog from being extracted: the price range and the rating of the  *)
(* returned record are those of the extraction with the catalog available.  *)
FieldFailureContained ==
    (extracted.done /\ extracted.bounds = <<>>)
    => LET m == [message |-> extracted.text, lang |-> extracted.lang]
       IN /\ extracted.entities.price_range = ExtractedOfMessage[m, "up"].entities.price_range
          /\ extracted.entities.rating = ExtractedOfMessage[m, "up"].entities.rating

(* C26: whenever detect_intent returns "unknown", the confidence it returns *)
(* is 0, whatever was classified before.                                    *)
UnknownHasZeroConfidence ==
    lastResult.intent = "unknown" => lastResult.score = 0

(* C27: in the chat flow the response of a classified request reports the   *)
(* intent and the confidence the classifier gave for the utterance.         *)
ResponseReportsClassification ==
    \A s \in Sessions :
        (served[s].done /\ served[s].intent # "None")
        => /\ served[s].response.intent = served[s].intent
           /\ served[s].response.confidence = served[s].confidence

(* C28: after every build of the product index, product_lookup of the       *)
(* embedding service and product_lookup of the chatbot service belong to    *)
(* the current product_index: one entry per row, entry i being the product  *)
(* of row i, and no entry when there is no index.                           *)
LookupsBelongToIndex ==
    LET Belongs(lookup) ==
            IF product_index.built
            THEN /\ Len(lookup) = Len(product_index.rows)
                 /\ \A k \in 1..Len(lookup) : lookup[k].id = product_index.rows[k]
            ELSE lookup = NoLookup
    IN Belongs(product_lookup) /\ Belongs(service_lookup)

(* C29: when the weights of the entities hold a (num, unit) pair,           *)
(* _filter_by_entities accepts a product whose other fields match exactly    *)
(* when the bucket of its weight is the bucket of a pair under the           *)
(* thresholds of normalize_weight.                                           *)
NumericWeightFiltersByBucket ==
    (sifted.done /\ sifted.without_weights
       /\ \E w \in sifted.entities.weights : w[1] > 0)
    => (sifted.filter_by_entities
          <=> \E w \in sifted.entities.weights :
                 w[1] > 0 /\ sifted.bucket = WeightBucket(w[1], w[2]))

(* C30: a request that reaches _handle_help, _handle_feedback or            *)
(* _handle_price_query (with no price range or one of two bounds) while the  *)
(* database answers, the catalog gives products or none and the              *)
(* preprocessing works, is answered with the status help, feedback, success  *)
(* or no_results.                                                            *)
HandlersAnswerWithoutError ==
    (/\ processed.done
     /\ processed.db = "up" /\ processed.outcome # "raises" /\ processed.fails = "none"
     /\ processed.response.handler
           \in {"_handle_help", "_handle_feedback", "_handle_price_query"}
     /\ Len(processed.response.entities.e.price_range) \in {0, 2})
    => processed.response.status \in {"help", "feedback", "success", "no_results"}

=============================================================================

